---------------------------- MODULE Spec2Model ----------------------------
(***************************************************************************)
(* Verification model of hubfly-cli.                                       *)
(*                                                                         *)
(* Part 1 (specification Spec): the tunnel service (package service):      *)
(* the manager's registry m.tunnels, the HTTP handlers handleStart,        *)
(* handleStop and handleStatus, the startTunnel goroutine, the accept      *)
(* goroutine and stopTunnel.                                               *)
(*                                                                         *)
(* Part 2 (specification SpecMulti): the multi-tunnel orchestration of     *)
(* the projects TUI (package cli): startMultiTunnelsCmd, the ssh           *)
(* processes, the wait goroutines, the event channel and                   *)
(* projectsApp.Update.                                                     *)
(*                                                                         *)
(* Part 3 (SpecRun, SpecRunLive): runTunnelConnection and its retries.     *)
(* Part 4 (SpecResolve): resolveTunnelForwardHost.                         *)
(* Part 5 (SpecForward, SpecForwardLive, SpecSessionLive):                 *)
(* forwardConnection and the end of a session.                             *)
(* Part 6 (SpecLock): the manager's lock m.mu and handleStatus.            *)
(* Part 7 (SpecRequest): enableCORS, the request bodies of the handlers    *)
(* and startTunnel step by step.                                           *)
(* Part 8 (SpecStart): the start loop of connectMultipleTunnels.           *)
(* Part 9 (SpecApp): the single-tunnel session of the projects TUI.        *)
(* Part 10 (SpecAuth): ensureAuth and login over the stored token.         *)
(* Part 11 (SpecCm, SpecWaitLive): the running phase of                    *)
(* connectMultipleTunnels.                                                 *)
(* Part 12 (SpecFlow): the choice of the tunnel in tunnelFlow.             *)
(***************************************************************************)
EXTENDS Integers, Sequences, FiniteSets, TLC

(***************************************************************************)
(* Bounds of the model.                                                    *)
(***************************************************************************)
\* number of POST /start requests
MaxStarts == 2
\* number of POST /stop requests
MaxStops == 1
\* local ports 1..MaxPort (0 is the zero value of a missing local_port)
MaxPort == 2

Starts == 1..MaxStarts
Stops == 1..MaxStops
Ports == 0..MaxPort

\* the absent map entry / nil *ActiveTunnel
None == 0

\* fmt.Sprintf("tunnel-%d", req.LocalPort): the decimal rendering of the port
DigitStr == <<"0", "1", "2", "3", "4", "5", "6", "7", "8", "9">>

RECURSIVE Itoa(_)
Itoa(n) == IF n < 10 THEN DigitStr[n + 1] ELSE Itoa(n \div 10) \o DigitStr[(n % 10) + 1]

\* %d of an int that may be negative
Sprintd(n) == IF n < 0 THEN "-" \o Itoa(-n) ELSE Itoa(n)

DefaultID(port) == "tunnel-" \o Sprintd(port)

\* the id a request body carries
ReqIDs == {"a"}

VARIABLES
    tunnels,      \* m.tunnels: id -> session (None when absent)
    hpc,          \* handleStart: "idle", "waiting" (in time.Sleep), "done"
    hreq,         \* handleStart: the decoded request, [id, port]
    hresp,        \* handleStart: the HTTP status answered (0: none yet)
    gpc,          \* the startTunnel goroutine and the accept goroutine it starts
    gheld,        \* the accept goroutine's deferred stopTunnel: the t it removed
    listenerOpen, \* session r's net.Listener is open
    clientOpen,   \* session r's *ssh.Client is open
    quitClosed,   \* number of close(t.Quit) calls on session r (2: panic)
    spc,          \* handleStop: "idle", "removed" (after delete, before close), "done"
    sid,          \* handleStop: body.ID
    sheld,        \* handleStop: the t stopTunnel removed
    sresp,        \* handleStop: the HTTP status answered (0: none yet)
    found,        \* history: how many stopTunnel lookups found session r
    quietAtStop,  \* history, while stopTunnel runs: no handleStart of sid was in
                  \* flight at its lookup
    startedAfter, \* history: a handleStart of sid ran its check after the lookup
    stoppedSince  \* history: a stop or accept failure of r's id since r's 200

svcVars == <<tunnels, hpc, hreq, hresp, gpc, gheld, listenerOpen, clientOpen,
             quitClosed, spc, sid, sheld, sresp, found, quietAtStop,
             startedAfter, stoppedSince>>

\* number of tunnels of a multi-tunnel plan
PlanLen == 2

\* the plans of a multi-tunnel start and their ssh processes (*exec.Cmd), by index
PlanIdx == 1..PlanLen

\* Single-tunnel starts of the TUI (startSingleTunnelCmd) in a behaviour.
MaxSingle == 2
SingleIdx == 1..MaxSingle

VARIABLES
    view,              \* m.view
    status,            \* m.status
    errMsg,            \* m.errMsg ("" or an error text)
    multiRunningCmds,  \* m.multiRunningCmds (<<>>: nil)
    multiRunningState, \* m.multiRunningState (<<>>: nil)
    multiEvents,       \* m.multiEvents is not nil
    quit,              \* Update returned tea.Quit
    loads,             \* fetchTunnelsCmd commands whose tunnelsLoadedMsg is due
    cpc,               \* startMultiTunnelsCmd: "none", "launching", "msgOk" /
                       \* "msgErr" (its multiStartMsg is due), "done"
    ck,                \* startMultiTunnelsCmd: the index of the plan launched next
    pst,               \* the ssh process of plan i is running
    chans,             \* the events channel of the start; an event carries,
                       \* besides the fields of multiEvent, how the process
                       \* ended: "unbound" (at once, it could not bind its local
                       \* port), "exited" (on its own, later), "killed" (by
                       \* stopSSHProcess)
    readers            \* waitMultiEventCmd goroutines blocked on the channel

tuiVars == <<view, status, errMsg, multiRunningCmds, multiRunningState,
             multiEvents, quit, loads, cpc, ck, pst, chans, readers>>

\* runTunnelConnection: maxRetries := 3
maxRetries == 3
\* runTunnelConnection: retryDelay := 2 * time.Second, in seconds
retryDelay == 2

VARIABLES
    rpc,       \* runTunnelConnection: "loop" (at the head of the loop), "running"
               \* (in cmd.Run(), the ssh process started), "returned"
    attempt,   \* runTunnelConnection: attempt
    ret,       \* runTunnelConnection: "none" (not returned), "nil", "error"
    launches,  \* history: number of cmd.Run() calls
    slept,     \* history: seconds spent in time.Sleep(retryDelay)
    outcomes   \* history: the exitCode of each attempt

runVars == <<rpc, attempt, ret, launches, slept, outcomes>>

\* longest string (docker name, alias, IP address) of a tunnel
MaxStrLen == 2
\* largest number of network aliases of a tunnel
MaxAliases == 2

VARIABLES
    tun,   \* resolveTunnelForwardHost: the tunnel t, [DockerName, Aliases, IPAddress]
    host   \* resolveTunnelForwardHost: its result (<<"unset">>: not called yet)

resVars == <<tun, host>>

\* number of local connections a session accepts
MaxConns == 2

Conns == 1..MaxConns
\* the two copy goroutines of a forwarder: io.Copy(localConn, remoteConn) and
\* io.Copy(remoteConn, localConn)
Dirs == {"toLocal", "toRemote"}

VARIABLES
    fpc,         \* forwardConnection of connection c: "none" (not accepted),
                 \* "dial" (before client.Dial), "waiting" (in <-done), "returned"
    fsess,       \* the session whose accept loop accepted c (None: none)
    localOpen,   \* localConn of c is open
    remoteOpen,  \* remoteConn of c is open
    cps,         \* the copy goroutines of c: "none", "copying" (in io.Copy),
                 \* "sending" (io.Copy returned), "done" (sent on done)
    doneCh,      \* number of values in the channel done of c (capacity 2)
    failsBefore  \* history: client.Dial failures before c was accepted

fwdVars == <<fpc, fsess, localOpen, remoteOpen, cps, doneCh, failsBefore>>

\* number of GET /status requests of a behaviour
MaxStatus == 1

StatusReqs == 1..MaxStatus

VARIABLES
    mu,     \* m.mu: the handleStatus call that holds it (None: not held, or held
            \* within one step of another goroutine)
    tpc,    \* handleStatus of request q: "idle", "encode" (in
            \* json.NewEncoder(w).Encode(statuses)), "done"
    tresp   \* handleStatus of request q: statuses

lockVars == <<mu, tpc, tresp>>

\* the values of the fields of a POST /start body; "" and 0 are what a missing
\* field decodes to
IDVals == {"", "a"}
StrVals == {"", "x"}
UserVals == {"", "u"}
LocalPortVals == (-1)..MaxPort
RemotePortVals == (-1)..1
SSHPortVals == {0, 22}

\* TunnelRequest, as decoded from the body
Bodies ==
    [id : IDVals, ssh_host : StrVals, ssh_port : SSHPortVals, ssh_user : UserVals,
     private_key : StrVals, local_port : LocalPortVals, remote_host : StrVals,
     remote_port : RemotePortVals]

Methods == {"POST", "GET", "OPTIONS"}
Endpoints == {"/start", "/stop", "/status", "/health"}

\* the body with every field missing
ZeroBody ==
    [id |-> "", ssh_host |-> "", ssh_port |-> 0, ssh_user |-> "", private_key |-> "",
     local_port |-> 0, remote_host |-> "", remote_port |-> 0]

\* a complete body
FullBody ==
    [id |-> "a", ssh_host |-> "x", ssh_port |-> 22, ssh_user |-> "u",
     private_key |-> "x", local_port |-> 1, remote_host |-> "x", remote_port |-> 1]

VARIABLES
    mtunnels,   \* m.tunnels: id -> the Req of the *ActiveTunnel (NoTunnel: absent)
    inreq,      \* the request being served: endpoint, method, whether its body
                \* decodes, and the decoded body (NoRequest: none)
    hstep,      \* the handler: "idle", "received" (the request is in), "sleeping"
                \* (handleStart in time.Sleep, startTunnel spawned)
    tstep,      \* the startTunnel goroutine: "none", "parse", "dial", "listen",
                \* "register", "done" (returned nil), "failedKey" / "failedDial" /
                \* "failedBind" (returned an error)
    cur,        \* req of the handleStart and startTunnel in progress, after the
                \* defaults (NoReq once both have returned)
    tClient,    \* startTunnel: client is open and not yet owned by a session
    tListener,  \* startTunnel: localListener is open and not yet owned by a session
    tAccept,    \* startTunnel started its accept goroutine
    resp        \* the last response: status code (0: none yet), the message or id
                \* of its body, and whether it has the cross-origin headers

reqVars == <<mtunnels, inreq, hstep, tstep, cur, tClient, tListener, tAccept, resp>>

VARIABLES
    cmpc,    \* connectMultipleTunnels: "starting" (in the start loop), "started"
             \* (every process launched), "returned"
    cmk,     \* connectMultipleTunnels: the index of the plan launched next
    cmProc,  \* the ssh process of plan i: "none", "running", "zombie" (exited, not
             \* waited for), "reaped"
    cmret    \* connectMultipleTunnels: "none" (not returned), "error", "nil"

cmtVars == <<cmpc, cmk, cmProc, cmret>>

VARIABLES
    cmWait,    \* the wait goroutine of cmds[i]: "none", "waiting" (in
               \* cmd.Wait()), "sending" (at exitCh <- ...), "done"
    exitCh,    \* number of messages in the buffer of exitCh
    cmRunning, \* connectMultipleTunnels: running
    cmPrompt,  \* the goroutine of prompt("") and close(stopCh): "none",
               \* "reading" (in stdin.ReadString), "done"
    stopCh,    \* stopCh is closed
    sigCh      \* number of signals in the buffer of sigCh

cmrVars == <<cmWait, exitCh, cmRunning, cmPrompt, stopCh, sigCh>>

VARIABLES
    flowTunnels,   \* tunnelFlow: tunnels, as returned by fetchTunnels
    keyFiles,      \* the names of the private key files in keysDir()
    targetPort,    \* tunnelFlow: targetPort
    tfpc,          \* tunnelFlow: "loop", "generate", "create", "rename",
                   \* "connect" (at runTunnelConnection), "error" (returned)
    tunnelToUse,   \* <<>> for nil, else <<the tunnel>>
    keyPathToUse,  \* <<>> for "", else <<the name of the key file>>
    created        \* number of tunnels the server created for this call

tfVars == <<flowTunnels, keyFiles, targetPort, tfpc, tunnelToUse, keyPathToUse, created>>

VARIABLES
    singleRunningCmd,  \* m.singleRunningCmd: None (nil) or the start whose process
                       \* it is
    sst,     \* startSingleTunnelCmd k: "none" (not issued), "launching",
             \* "msgOk", "msgErr" (its singleStartMsg is due), "done"
    sproc,   \* the ssh process of start k: "none", "running", "exited" (on its
             \* own), "killed" (by stopSSHProcess)
    swait,   \* waitSingleTunnelDoneCmd of start k: "none", "waiting" (in
             \* cmd.Wait()), "msgNil", "msgErr" (its singleSSHDoneMsg is due),
             \* "done"
    sstopKey \* history: the session of start k was stopped with s, enter or esc
             \* in viewRunningSingle

sglVars == <<singleRunningCmd, sst, sproc, swait, sstopKey>>

VARIABLES
    store,    \* the config file of the stored token: Absent, Corrupt (not the
              \* JSON of a storeConfig) or the token it holds
    store0,   \* history: the file when ensureAuth was called
    eapc,     \* ensureAuth: "start", "whoami", "prompt" (in login's loop, at the
              \* prompt), "loginWhoami", "getToken" (the final getToken()),
              \* "returned"
    etoken,   \* ensureAuth: token
    einput,   \* login: input
    eret,     \* ensureAuth: the result, [token, err]; err is "" (nil) or names
              \* the error
    ewho,     \* history: the error of ensureAuth's own fetchWhoAmI
    edeleted  \* history: deleteToken was called

authVars == <<store, store0, eapc, etoken, einput, eret, ewho, edeleted>>

vars == <<svcVars, tuiVars, runVars, resVars, fwdVars, lockVars, reqVars, cmtVars,
          sglVars, authVars, cmrVars, tfVars>>

\* the variables outside the TUI
notAppVars == <<svcVars, runVars, resVars, fwdVars, lockVars, reqVars, cmtVars,
    authVars, cmrVars, tfVars>>

\* the variables of the other parts
notSvcVars == <<tuiVars, runVars, resVars, fwdVars, lockVars, reqVars, cmtVars,
    sglVars, authVars, cmrVars, tfVars>>
notTuiVars == <<svcVars, runVars, resVars, fwdVars, lockVars, reqVars, cmtVars,
    sglVars, authVars, cmrVars, tfVars>>
notRunVars == <<svcVars, tuiVars, resVars, fwdVars, lockVars, reqVars, cmtVars,
    sglVars, authVars, cmrVars, tfVars>>
notResVars == <<svcVars, tuiVars, runVars, fwdVars, lockVars, reqVars, cmtVars,
    sglVars, authVars, cmrVars, tfVars>>
notFwdVars == <<tuiVars, runVars, resVars, lockVars, reqVars, cmtVars,
    sglVars, authVars, cmrVars, tfVars>>
notLockVars == <<svcVars, tuiVars, runVars, resVars, fwdVars, reqVars, cmtVars,
    sglVars, authVars, cmrVars, tfVars>>
notReqVars == <<svcVars, tuiVars, runVars, resVars, fwdVars, lockVars, cmtVars,
    sglVars, authVars, cmrVars, tfVars>>
notCmtVars == <<svcVars, tuiVars, runVars, resVars, fwdVars, lockVars, reqVars,
    sglVars, authVars, cmrVars, tfVars>>
notAuthVars == <<svcVars, tuiVars, runVars, resVars, fwdVars, lockVars, reqVars,
    cmtVars, sglVars, cmrVars, tfVars>>
\* the variables outside connectMultipleTunnels
notCmVars == <<svcVars, tuiVars, runVars, resVars, fwdVars, lockVars, reqVars,
    sglVars, authVars, tfVars>>
notTfVars == <<svcVars, tuiVars, runVars, resVars, fwdVars, lockVars, reqVars,
    cmtVars, sglVars, authVars, cmrVars>>

(***************************************************************************)
(* Part 1: the tunnel service.                                             *)
(***************************************************************************)

\* handleStart: if req.ID == "" { req.ID = fmt.Sprintf("tunnel-%d", req.LocalPort) }
\* a handleStart that keeps an empty id
EffIDKept(id, port) == id

EffID(id, port) == IF id = "" THEN DefaultID(port) ELSE id

\* the keys m.tunnels can hold
IDSpace == {EffID(id, port) : id \in ReqIDs, port \in Ports \ {0}}

\* the session of request r exists once net.Listen succeeded: t := &ActiveTunnel{...}
SessionID(r) == hreq[r].id

\* net.Listen("tcp", "0.0.0.0:<port>") can succeed only while no listener of the
\* process holds the port
PortFree(port) == \A q \in Starts : listenerOpen[q] => hreq[q].port # port

\* a stopTunnel whose lookup leaves the entry in the map
stopTunnelDeleteNot(id) == tunnels

\* stopTunnel, under m.mu: delete(m.tunnels, id)
stopTunnelDelete(id) == [tunnels EXCEPT ![id] = None]

\* a stopTunnel that closes t.Quit and the transport and leaves the listener open
stopTunnelCloseQuit(t) ==
    /\ quitClosed' = [quitClosed EXCEPT ![t] = IF @ < 2 THEN @ + 1 ELSE @]
    /\ clientOpen' = [clientOpen EXCEPT ![t] = FALSE]
    /\ UNCHANGED listenerOpen

\* a stopTunnel that closes t.Quit and the listener and leaves the transport open
stopTunnelCloseListener(t) ==
    /\ quitClosed' = [quitClosed EXCEPT ![t] = IF @ < 2 THEN @ + 1 ELSE @]
    /\ listenerOpen' = [listenerOpen EXCEPT ![t] = FALSE]
    /\ UNCHANGED clientOpen

\* stopTunnel, after m.mu.Unlock(): close(t.Quit); t.Listener.Close(); t.SSHClient.Close()
stopTunnelClose(t) ==
    /\ quitClosed' = [quitClosed EXCEPT ![t] = IF @ < 2 THEN @ + 1 ELSE @]
    /\ listenerOpen' = [listenerOpen EXCEPT ![t] = FALSE]
    /\ clientOpen' = [clientOpen EXCEPT ![t] = FALSE]

\* history: a stop or an accept failure touched id; every request already answered
\* 200 under id has seen one since
MarkStopped(id) ==
    [q \in Starts |-> IF hresp[q] = 200 /\ hreq[q].id = id THEN TRUE ELSE stoppedSince[q]]

\* handleStatus: one TunnelStatus per entry of m.tunnels
handleStatus ==
    {[id |-> id, local_port |-> hreq[tunnels[id]].port, status |-> "active"] :
        id \in {i \in IDSpace : tunnels[i] # None}}

\* how startTunnel's dial and bind can end
OpenOutcomes == {"ok", "dialfail", "bindfail"}

SvcInit ==
    /\ tunnels = [id \in IDSpace |-> None]
    /\ hpc = [r \in Starts |-> "idle"]
    /\ hreq = [r \in Starts |-> [id |-> "", port |-> 0]]
    /\ hresp = [r \in Starts |-> 0]
    /\ gpc = [r \in Starts |-> "none"]
    /\ gheld = [r \in Starts |-> None]
    /\ listenerOpen = [r \in Starts |-> FALSE]
    /\ clientOpen = [r \in Starts |-> FALSE]
    /\ quitClosed = [r \in Starts |-> 0]
    /\ spc = [s \in Stops |-> "idle"]
    /\ sid = [s \in Stops |-> ""]
    /\ sheld = [s \in Stops |-> None]
    /\ sresp = [s \in Stops |-> 0]
    /\ found = [r \in Starts |-> 0]
    /\ quietAtStop = [s \in Stops |-> FALSE]
    /\ startedAfter = [s \in Stops |-> FALSE]
    /\ stoppedSince = [r \in Starts |-> FALSE]

\* the local ports of the requests received so far. Nothing in the service
\* depends on a port's number, only on two ports being equal, so the requests
\* are enumerated up to a renaming of the ports: a request carries a port seen
\* before or the next unused one (and the requests arrive in the order of
\* their index).
UsedPorts == {hreq[q].port : q \in {x \in Starts : hpc[x] # "idle"}} \ {0}

\* handleStart up to the spawn of the startTunnel goroutine: decode, the required
\* fields (a missing local_port decodes to 0), the defaults, the check under m.mu
HandleStartReq(r, id, port) ==
    /\ UNCHANGED notSvcVars
    /\ hpc[r] = "idle"
    /\ \A q \in Starts : q < r => hpc[q] # "idle"
    /\ port <= Cardinality(UsedPorts) + 1
    /\ UNCHANGED <<tunnels, gheld, listenerOpen, clientOpen, quitClosed, spc, sid,
                   sheld, sresp, found, quietAtStop, stoppedSince>>
    /\ IF port = 0
       THEN /\ hresp' = [hresp EXCEPT ![r] = 400]
            /\ hpc' = [hpc EXCEPT ![r] = "done"]
            /\ UNCHANGED <<hreq, gpc, startedAfter>>
       ELSE /\ hreq' = [hreq EXCEPT ![r] = [id |-> EffID(id, port), port |-> port]]
            /\ startedAfter' = [s \in Stops |->
                   IF spc[s] # "idle" /\ sresp[s] # 404 /\ sid[s] = EffID(id, port)
                   THEN TRUE ELSE startedAfter[s]]
            /\ IF tunnels[EffID(id, port)] # None
               THEN /\ hresp' = [hresp EXCEPT ![r] = 409]
                    /\ hpc' = [hpc EXCEPT ![r] = "done"]
                    /\ UNCHANGED gpc
               ELSE /\ hpc' = [hpc EXCEPT ![r] = "waiting"]
                    /\ gpc' = [gpc EXCEPT ![r] = "dial"]
                    /\ UNCHANGED hresp

\* handleStart after time.Sleep(500ms): _, running := m.tunnels[req.ID]
HandleStartReply(r) ==
    /\ UNCHANGED notSvcVars
    /\ hpc[r] = "waiting"
    /\ hresp' = [hresp EXCEPT ![r] =
                    IF tunnels[hreq[r].id] # None THEN 200 ELSE 500]
    /\ hpc' = [hpc EXCEPT ![r] = "done"]
    /\ UNCHANGED <<tunnels, hreq, gpc, gheld, listenerOpen, clientOpen, quitClosed,
                   spc, sid, sheld, sresp, found, quietAtStop, startedAfter,
                   stoppedSince>>

\* startTunnel up to t := &ActiveTunnel{...}: ssh.ParsePrivateKey and ssh.Dial
\* ("dialfail": either fails, nothing was opened), then net.Listen ("bindfail":
\* client.Close() and return). The steps before net.Listen touch nothing shared.
StartTunnelOpen(r, outcome) ==
    /\ UNCHANGED notSvcVars
    /\ gpc[r] = "dial"
    /\ outcome = "ok" => PortFree(hreq[r].port)
    /\ IF outcome = "ok"
       THEN /\ clientOpen' = [clientOpen EXCEPT ![r] = TRUE]
            /\ listenerOpen' = [listenerOpen EXCEPT ![r] = TRUE]
            /\ gpc' = [gpc EXCEPT ![r] = "register"]
       ELSE /\ gpc' = [gpc EXCEPT ![r] = "failed"]
            /\ UNCHANGED <<clientOpen, listenerOpen>>
    /\ UNCHANGED <<tunnels, hpc, hreq, hresp, gheld, quitClosed, spc, sid, sheld,
                   sresp, found, quietAtStop, startedAfter, stoppedSince>>

\* startTunnel: m.tunnels[req.ID] = t under m.mu, then the accept goroutine starts
StartTunnelRegister(r) ==
    /\ UNCHANGED notSvcVars
    /\ gpc[r] = "register"
    /\ tunnels' = [tunnels EXCEPT ![SessionID(r)] = r]
    /\ gpc' = [gpc EXCEPT ![r] = "accepting"]
    /\ UNCHANGED <<hpc, hreq, hresp, gheld, listenerOpen, clientOpen, quitClosed,
                   spc, sid, sheld, sresp, found, quietAtStop, startedAfter,
                   stoppedSince>>

\* accept goroutine: localListener.Accept() returns an error, because the listener
\* was closed or for a reason of its own; both arms of the select return, and the
\* deferred m.stopTunnel(req.ID) runs its part under m.mu
AcceptExit(r) ==
    /\ UNCHANGED notSvcVars
    /\ gpc[r] = "accepting"
    /\ stoppedSince' = MarkStopped(SessionID(r))
    /\ IF tunnels[SessionID(r)] = None
       THEN /\ gpc' = [gpc EXCEPT ![r] = "exited"]
            /\ UNCHANGED <<tunnels, gheld, found>>
       ELSE /\ gheld' = [gheld EXCEPT ![r] = tunnels[SessionID(r)]]
            /\ found' = [found EXCEPT ![tunnels[SessionID(r)]] = @ + 1]
            /\ tunnels' = stopTunnelDelete(SessionID(r))
            /\ gpc' = [gpc EXCEPT ![r] = "teardown"]
    /\ UNCHANGED <<hpc, hreq, hresp, listenerOpen, clientOpen, quitClosed, spc, sid,
                   sheld, sresp, quietAtStop, startedAfter>>

\* accept goroutine: the deferred m.stopTunnel(req.ID), its part after the unlock
AcceptTeardown(r) ==
    /\ UNCHANGED notSvcVars
    /\ gpc[r] = "teardown"
    /\ stopTunnelClose(gheld[r])
    /\ gheld' = [gheld EXCEPT ![r] = None]
    /\ gpc' = [gpc EXCEPT ![r] = "exited"]
    /\ UNCHANGED <<tunnels, hpc, hreq, hresp, spc, sid, sheld, sresp, found,
                   quietAtStop, startedAfter, stoppedSince>>

\* handleStop: decode the body, then stopTunnel's part under m.mu; 404 when absent
HandleStopReq(s, id) ==
    /\ UNCHANGED notSvcVars
    /\ spc[s] = "idle"
    /\ \A q \in Stops : q < s => spc[q] # "idle"
    /\ sid' = [sid EXCEPT ![s] = id]
    /\ IF tunnels[id] = None
       THEN /\ spc' = [spc EXCEPT ![s] = "done"]
            /\ sresp' = [sresp EXCEPT ![s] = 404]
            /\ UNCHANGED <<tunnels, sheld, found, quietAtStop, stoppedSince>>
       ELSE /\ spc' = [spc EXCEPT ![s] = "removed"]
            /\ sheld' = [sheld EXCEPT ![s] = tunnels[id]]
            /\ found' = [found EXCEPT ![tunnels[id]] = @ + 1]
            /\ tunnels' = stopTunnelDelete(id)
            /\ quietAtStop' = [quietAtStop EXCEPT ![s] =
                   \A r \in Starts : ~(hpc[r] = "waiting" /\ hreq[r].id = id)]
            /\ stoppedSince' = MarkStopped(id)
            /\ UNCHANGED sresp
    /\ UNCHANGED <<hpc, hreq, hresp, gpc, gheld, listenerOpen, clientOpen,
                   quitClosed, startedAfter>>

\* handleStop: stopTunnel's part after the unlock, then 200 "Tunnel stopped"
HandleStopTeardown(s) ==
    /\ UNCHANGED notSvcVars
    /\ spc[s] = "removed"
    /\ stopTunnelClose(sheld[s])
    /\ spc' = [spc EXCEPT ![s] = "done"]
    /\ sresp' = [sresp EXCEPT ![s] = 200]
    /\ quietAtStop' = [quietAtStop EXCEPT ![s] = FALSE]
    /\ UNCHANGED <<tunnels, hpc, hreq, hresp, gpc, gheld, sid, sheld, found,
                   startedAfter, stoppedSince>>

SvcNext ==
    \/ \E r \in Starts, id \in ReqIDs, port \in Ports : HandleStartReq(r, id, port)
    \/ \E r \in Starts : HandleStartReply(r)
    \/ \E r \in Starts, outcome \in OpenOutcomes : StartTunnelOpen(r, outcome)
    \/ \E r \in Starts : StartTunnelRegister(r)
    \/ \E r \in Starts : AcceptExit(r)
    \/ \E r \in Starts : AcceptTeardown(r)
    \/ \E s \in Stops, id \in IDSpace : HandleStopReq(s, id)
    \/ \E s \in Stops : HandleStopTeardown(s)

(***************************************************************************)
(* Part 2: the multi-tunnel orchestration of the projects TUI.             *)
(* A wait goroutine's send follows its process' end at once (the channel   *)
(* is buffered for the whole plan), so the two are one step; so are a      *)
(* waitMultiEventCmd's receive and the Update of its multiEventMsg.  A     *)
(* behaviour ends with tea.Quit.  The user starts a plan again only when   *)
(* the last start is over: no process of it runs, no goroutine waits on    *)
(* its channel, no event is left in it and no tunnelsLoadedMsg is due.     *)
(***************************************************************************)

Range(q) == {q[k] : k \in 1..Len(q)}

\* a stopSSHProcess that takes every process down with its target
stopSSHProcessAll(p, i) == [j \in DOMAIN p |-> FALSE]

\* a stopSSHProcess that leaves the process running
stopSSHProcessNot(p, i) == p

\* stopSSHProcess(cmd): interrupt, 250 ms, kill, reap; nothing happens to a
\* process that has exited already
stopSSHProcess(p, i) == [p EXCEPT ![i] = FALSE]

\* for _, cmd := range cmds { _ = stopSSHProcess(cmd) }
RECURSIVE StopEach(_, _)
StopEach(p, cmds) ==
    IF cmds = <<>> THEN p ELSE StopEach(stopSSHProcess(p, Head(cmds)), Tail(cmds))

\* events <- multiEvent{index: i, err: c.Wait()} of the processes that the loop
\* over cmds puts an end to, in the order of the loop
RECURSIVE KillEvents(_, _)
KillEvents(p, cmds) ==
    IF cmds = <<>> THEN <<>>
    ELSE (IF p[Head(cmds)]
          THEN <<[index |-> Head(cmds), err |-> TRUE, end |-> "killed"]>>
          ELSE <<>>) \o KillEvents(p, Tail(cmds))

\* a channel that no waitMultiEventCmd reads, m.multiEvents does not hold and no
\* running startMultiTunnelsCmd or multiStartMsg carries is garbage
Reachable(ch, rd, me, cp) ==
    IF rd > 0 \/ me \/ cp \in {"launching", "msgOk"} THEN ch ELSE <<>>

\* a stop-all that reaches only the first process of the batch
stopAllMultiFirst == SubSeq(multiRunningCmds, 1, 1)

\* stopAllMulti: the processes its loop goes over
stopAllMultiCmds == multiRunningCmds

\* stopAllMulti: the loop, then the four fields are set to nil
stopAllMulti ==
    /\ pst' = StopEach(pst, stopAllMultiCmds)
    /\ chans' = Reachable(chans \o KillEvents(pst, stopAllMultiCmds),
                          readers, FALSE, cpc)
    /\ multiRunningCmds' = <<>>
    /\ multiRunningState' = <<>>
    /\ multiEvents' = FALSE

\* startMultiTunnelsCmd: cmds, the processes launched so far
StartedCmds == [k \in 1..(ck - 1) |-> k]

\* the TUI on the multi-tunnel port-mode screen with PlanLen tunnels picked, no
\* tunnel process started yet
TuiInit ==
    /\ view = "viewMultiPortMode"
    /\ status = ""
    /\ errMsg = ""
    /\ multiRunningCmds = <<>>
    /\ multiRunningState = <<>>
    /\ multiEvents = FALSE
    /\ quit = FALSE
    /\ loads = 0
    /\ cpc = "none"
    /\ ck = 1
    /\ pst = [i \in PlanIdx |-> FALSE]
    /\ chans = <<>>
    /\ readers = 0

\* the last multi-tunnel start is over
StartOver ==
    /\ cpc = "done"
    /\ \A i \in PlanIdx : ~pst[i]
    /\ readers = 0
    /\ chans = <<>>
    /\ loads = 0

\* Update, viewMultiPortMode, enter on "Use Target Ports" (or the last custom
\* port entered): return m, startMultiTunnelsCmd(plans)
KeyEnterStart ==
    /\ ~quit
    /\ view = "viewMultiPortMode"
    /\ cpc = "none" \/ StartOver
    /\ cpc' = "launching"
    /\ status' = "Starting multiple tunnels..."
    /\ UNCHANGED <<view, errMsg, multiRunningCmds, multiRunningState, multiEvents,
                   quit, loads, ck, pst, chans, readers>>
    /\ UNCHANGED notTuiVars

\* startMultiTunnelsCmd, one turn of its loop: startTunnelConnectionBackground
\* (cmd.Start()); on an error every process started so far is stopped and
\* multiStartMsg{err} is returned, the events channel is dropped; otherwise the
\* wait goroutine is started. ck is back at 1 when the command returns.
Launch(ok) ==
    /\ ~quit
    /\ cpc = "launching"
    /\ IF ok
       THEN /\ pst' = [pst EXCEPT ![ck] = TRUE]
            /\ ck' = IF ck = PlanLen THEN 1 ELSE ck + 1
            /\ cpc' = IF ck = PlanLen THEN "msgOk" ELSE cpc
            /\ UNCHANGED chans
       ELSE /\ pst' = StopEach(pst, StartedCmds)
            /\ cpc' = "msgErr"
            /\ chans' = <<>>
            /\ ck' = 1
    /\ UNCHANGED <<view, status, errMsg, multiRunningCmds, multiRunningState,
                   multiEvents, quit, loads, readers>>
    /\ UNCHANGED notTuiVars

\* Update(multiStartMsg)
UpdateMultiStart ==
    /\ ~quit
    /\ cpc \in {"msgOk", "msgErr"}
    /\ cpc' = "done"
    /\ IF cpc = "msgErr"
       THEN /\ errMsg' = "err"
            /\ status' = "Failed to start multi tunnel"
            /\ view' = "viewContainerMenu"
            /\ UNCHANGED <<multiRunningCmds, multiRunningState, multiEvents,
                           readers>>
       ELSE /\ errMsg' = ""
            /\ multiRunningCmds' = [k \in PlanIdx |-> k]
            /\ multiEvents' = TRUE
            /\ multiRunningState' = [k \in PlanIdx |-> "running"]
            /\ view' = "viewRunningMulti"
            /\ status' = "tunnel process(es) running"
            /\ readers' = readers + 1
    /\ UNCHANGED <<quit, loads, ck, pst, chans>>
    /\ UNCHANGED notTuiVars

\* an ssh process ends on its own, at once with an error when it cannot bind its
\* local port (ExitOnForwardFailure=yes, bound = FALSE), later with or without
\* one; its wait goroutine sends the event
ProcExit(i, bound, err) ==
    /\ ~quit
    /\ pst[i]
    /\ ~bound => err
    /\ pst' = [pst EXCEPT ![i] = FALSE]
    /\ chans' = Reachable(Append(chans, [index |-> i, err |-> err,
                                          end |-> IF bound THEN "exited"
                                                  ELSE "unbound"]),
                          readers, multiEvents, cpc)
    /\ UNCHANGED <<view, status, errMsg, multiRunningCmds, multiRunningState,
                   multiEvents, quit, loads, cpc, ck, readers>>
    /\ UNCHANGED notTuiVars

\* Update(multiEventMsg): the state slots after the event
EventState(st, ev) ==
    IF ev.index <= Len(st)
    THEN [st EXCEPT ![ev.index] = IF ev.err THEN "error" ELSE "exited"]
    ELSE st

\* a waitMultiEventCmd receives an event; Update(multiEventMsg)
UpdateMultiEvent ==
    /\ ~quit
    /\ readers > 0
    /\ chans # <<>>
    /\ errMsg' = IF Head(chans).index <= Len(multiRunningState) /\ Head(chans).err
                 THEN "err" ELSE errMsg
    /\ IF \A k \in 1..Len(multiRunningState) :
             EventState(multiRunningState, Head(chans))[k] # "running"
       THEN /\ status' = "All multi tunnels exited"
            /\ view' = "viewContainerMenu"
            /\ multiRunningCmds' = <<>>
            /\ multiRunningState' = <<>>
            /\ loads' = loads + 1
            /\ readers' = readers - 1
       ELSE /\ multiRunningState' = EventState(multiRunningState, Head(chans))
            /\ readers' = readers - 1 + (IF multiEvents THEN 1 ELSE 0)
            /\ UNCHANGED <<status, view, multiRunningCmds, loads>>
    /\ chans' = Reachable(Tail(chans), readers', multiEvents, cpc)
    /\ UNCHANGED <<multiEvents, quit, cpc, ck, pst>>
    /\ UNCHANGED notTuiVars

\* Update, viewRunningMulti, key s, enter or esc
KeyStopMulti ==
    /\ ~quit
    /\ view = "viewRunningMulti"
    /\ stopAllMulti
    /\ view' = "viewContainerMenu"
    /\ status' = "Stopped all running multi tunnels"
    /\ loads' = loads + 1
    /\ UNCHANGED <<errMsg, quit, cpc, ck, readers>>
    /\ UNCHANGED notTuiVars

\* stopSSHProcess(cmd) on the process of a single-tunnel start
stopSingleCmd(p, k) == [p EXCEPT ![k] = IF p[k] = "running" THEN "killed" ELSE p[k]]

\* if m.singleRunningCmd != nil { _ = stopSSHProcess(m.singleRunningCmd);
\* m.singleRunningCmd = nil }
stopSingleRunning ==
    IF singleRunningCmd # None
    THEN /\ sproc' = stopSingleCmd(sproc, singleRunningCmd)
         /\ singleRunningCmd' = None
    ELSE UNCHANGED <<sproc, singleRunningCmd>>

\* Update, key ctrl+c; in viewPortInput every key goes to the text input
KeyCtrlC ==
    /\ ~quit
    /\ view # "viewPortInput"
    /\ IF Len(multiRunningCmds) > 0
       THEN stopAllMulti
       ELSE UNCHANGED <<pst, chans, multiRunningCmds, multiRunningState,
                        multiEvents>>
    /\ stopSingleRunning
    /\ quit' = TRUE
    /\ UNCHANGED <<view, status, errMsg, loads, cpc, ck, readers>>
    /\ UNCHANGED <<sst, swait, sstopKey>>
    /\ UNCHANGED notAppVars

\* Update, key q: stop-all; in the running views nothing else happens, in the
\* list views the key goes on to the list component, which may quit (byList)
KeyQ(byList) ==
    /\ ~quit
    /\ view # "viewPortInput"
    /\ IF Len(multiRunningCmds) > 0
       THEN stopAllMulti
       ELSE UNCHANGED <<pst, chans, multiRunningCmds, multiRunningState,
                        multiEvents>>
    /\ stopSingleRunning
    /\ quit' = (view \notin {"viewRunningMulti", "viewRunningSingle"} /\ byList)
    /\ UNCHANGED <<view, status, errMsg, loads, cpc, ck, readers>>
    /\ UNCHANGED <<sst, swait, sstopKey>>
    /\ UNCHANGED notAppVars

\* Update, key esc in viewMultiPortMode and viewTunnelsMulti
KeyEsc ==
    /\ ~quit
    /\ view \in {"viewMultiPortMode", "viewTunnelsMulti"}
    /\ view' = IF view = "viewMultiPortMode" THEN "viewTunnelsMulti"
               ELSE "viewContainerMenu"
    /\ UNCHANGED <<status, errMsg, multiRunningCmds, multiRunningState,
                   multiEvents, quit, loads, cpc, ck, pst, chans, readers>>
    /\ UNCHANGED notTuiVars

\* Update, key enter on "Connect Multiple Tunnels" in viewContainerMenu and on a
\* non-empty selection in viewTunnelsMulti
KeyEnterNav ==
    /\ ~quit
    /\ view \in {"viewContainerMenu", "viewTunnelsMulti"}
    /\ view' = IF view = "viewContainerMenu" THEN "viewTunnelsMulti"
               ELSE "viewMultiPortMode"
    /\ UNCHANGED <<status, errMsg, multiRunningCmds, multiRunningState,
                   multiEvents, quit, loads, cpc, ck, pst, chans, readers>>
    /\ UNCHANGED notTuiVars

\* Update(tunnelsLoadedMsg), the answer to a fetchTunnelsCmd
UpdateTunnelsLoaded(err) ==
    /\ ~quit
    /\ loads > 0
    /\ loads' = loads - 1
    /\ IF err
       THEN /\ errMsg' = "err"
            /\ status' = "Failed to load tunnels"
            /\ UNCHANGED view
       ELSE /\ errMsg' = ""
            /\ view' = "viewContainerMenu"
            /\ status' = "tunnel(s) loaded"
    /\ UNCHANGED <<multiRunningCmds, multiRunningState, multiEvents, quit, cpc, ck,
                   pst, chans, readers>>
    /\ UNCHANGED notTuiVars

TuiNext ==
    \/ KeyEnterStart
    \/ \E ok \in BOOLEAN : Launch(ok)
    \/ UpdateMultiStart
    \/ \E i \in PlanIdx, bound, err \in BOOLEAN : ProcExit(i, bound, err)
    \/ UpdateMultiEvent
    \/ KeyStopMulti
    \/ KeyCtrlC
    \/ \E byList \in BOOLEAN : KeyQ(byList)
    \/ KeyEsc
    \/ KeyEnterNav
    \/ \E err \in BOOLEAN : UpdateTunnelsLoaded(err)

(***************************************************************************)
(* Part 3: runTunnelConnection, the single-tunnel ssh session with         *)
(* retries.                                                                *)
(***************************************************************************)

\* exit codes of the ssh process: ExitError.ExitCode() (-1: ended by a signal),
\* 0 when cmd.Run() returns nil
ExitCodes == {-1, 0, 1, 130, 255}

\* a test that takes only code 0 for a clean exit
CleanExitZero(code) == code = 0

\* exitCode == 0 || exitCode == 130
CleanExit(code) == code = 0 \/ code = 130

RunInit ==
    /\ rpc = "loop"
    /\ attempt = 1
    /\ ret = "none"
    /\ launches = 0
    /\ slept = 0
    /\ outcomes = <<>>

\* a runTunnelConnection that gives up at the first abnormal exit
AfterRunNoRetry(code) ==
    /\ outcomes' = Append(outcomes, code)
    /\ ret' = IF CleanExit(code) THEN "nil" ELSE "error"
    /\ rpc' = "returned"
    /\ UNCHANGED attempt

\* runTunnelConnection, the rest of a turn of the loop once exitCode is known
AfterRun(code) ==
    /\ outcomes' = Append(outcomes, code)
    /\ IF CleanExit(code)
       THEN /\ ret' = "nil"
            /\ rpc' = "returned"
            /\ UNCHANGED attempt
       ELSE IF attempt = maxRetries + 1
       THEN /\ ret' = "error"
            /\ rpc' = "returned"
            /\ UNCHANGED attempt
       ELSE /\ attempt' = attempt + 1
            /\ rpc' = "loop"
            /\ UNCHANGED ret

\* runTunnelConnection, head of a turn of the loop: the delay before a retry, then
\* cmd.Run(); when the process cannot be started cmd.Run() returns an error that
\* is no ExitError and exitCode stays 1
RunLaunch(started) ==
    /\ rpc = "loop"
    /\ attempt <= maxRetries + 1
    /\ slept' = slept + (IF attempt > 1 THEN retryDelay ELSE 0)
    /\ launches' = launches + 1
    /\ IF started
       THEN /\ rpc' = "running"
            /\ UNCHANGED <<attempt, ret, outcomes>>
       ELSE AfterRun(1)
    /\ UNCHANGED notRunVars

\* the ssh process exits with code; cmd.Run() returns
RunExit(code) ==
    /\ rpc = "running"
    /\ AfterRun(code)
    /\ UNCHANGED <<launches, slept>>
    /\ UNCHANGED notRunVars

RunNext ==
    \/ \E started \in BOOLEAN : RunLaunch(started)
    \/ \E code \in ExitCodes : RunExit(code)

(***************************************************************************)
(* Part 4: resolveTunnelForwardHost.  A string is a sequence of            *)
(* characters.                                                             *)
(***************************************************************************)

\* the characters of the strings: a space and a letter
Chars == {" ", "a"}

\* the strings of at most n characters
StringsUpTo(n) == UNION {[1..k -> Chars] : k \in 0..n}
Strings == StringsUpTo(MaxStrLen)

\* the tunnels: t.DockerName, t.TargetNetwork.Aliases, t.TargetNetwork.IPAddress
Tunnels ==
    [DockerName : Strings,
     Aliases : UNION {[1..k -> Strings] : k \in 0..MaxAliases},
     IPAddress : Strings]

\* strings.TrimSpace: leading white space removed
RECURSIVE TrimLeft(_)
TrimLeft(str) ==
    IF str # <<>> /\ Head(str) = " " THEN TrimLeft(Tail(str)) ELSE str

\* strings.TrimSpace: trailing white space removed
RECURSIVE TrimRight(_)
TrimRight(str) ==
    IF str # <<>> /\ str[Len(str)] = " "
    THEN TrimRight(SubSeq(str, 1, Len(str) - 1)) ELSE str

\* strings.TrimSpace
TrimSpace(str) == TrimRight(TrimLeft(str))

\* the literal "127.0.0.1"
Localhost == <<"1", "2", "7", ".", "0", ".", "0", ".", "1">>

\* a loop over the aliases that takes the first one, blank or not
AliasLoopFirst(aliases) ==
    IF aliases = <<>> THEN <<>> ELSE TrimSpace(Head(aliases))

\* resolveTunnelForwardHost, the loop over t.TargetNetwork.Aliases: the trimmed
\* first alias that is not blank (<<>>: the loop ends without a return)
RECURSIVE AliasLoop(_)
AliasLoop(aliases) ==
    IF aliases = <<>> THEN <<>>
    ELSE IF TrimSpace(Head(aliases)) # <<>> THEN TrimSpace(Head(aliases))
    ELSE AliasLoop(Tail(aliases))

resolveTunnelForwardHost(t) ==
    IF TrimSpace(t.DockerName) # <<>> THEN TrimSpace(t.DockerName)
    ELSE IF AliasLoop(t.Aliases) # <<>> THEN AliasLoop(t.Aliases)
    ELSE IF TrimSpace(t.IPAddress) # <<>> THEN TrimSpace(t.IPAddress)
    ELSE Localhost

\* no call of resolveTunnelForwardHost yet
ResInit0 ==
    /\ tun = [DockerName |-> <<>>, Aliases |-> <<>>, IPAddress |-> <<>>]
    /\ host = <<"unset">>

\* resolveTunnelForwardHost about to be called with any tunnel
ResInit ==
    /\ tun \in Tunnels
    /\ host = <<"unset">>

\* the call resolveTunnelForwardHost(t)
Resolve ==
    /\ host = <<"unset">>
    /\ host' = resolveTunnelForwardHost(tun)
    /\ UNCHANGED tun
    /\ UNCHANGED notResVars

ResNext == Resolve

(***************************************************************************)
(* Part 5: the forwarders of a session of the tunnel service: the accept   *)
(* loop's Accept and forwardConnection.  SpecForward starts with one       *)
(* session registered and accepting; the session can be stopped or its     *)
(* accept loop can fail, as in part 1.                                     *)
(***************************************************************************)

\* no connection accepted
FwdInit ==
    /\ fpc = [c \in Conns |-> "none"]
    /\ fsess = [c \in Conns |-> None]
    /\ localOpen = [c \in Conns |-> FALSE]
    /\ remoteOpen = [c \in Conns |-> FALSE]
    /\ cps = [c \in Conns |-> [d \in Dirs |-> "none"]]
    /\ doneCh = [c \in Conns |-> 0]
    /\ failsBefore = [c \in Conns |-> 0]

\* the tunnel service after POST /start of id "a", local port 1, was answered 200:
\* session 1 registered, its accept goroutine in Accept
SvcStarted ==
    /\ tunnels = [id \in IDSpace |-> IF id = "a" THEN 1 ELSE None]
    /\ hpc = [r \in Starts |-> IF r = 1 THEN "done" ELSE "idle"]
    /\ hreq = [r \in Starts |-> IF r = 1 THEN [id |-> "a", port |-> 1]
                                          ELSE [id |-> "", port |-> 0]]
    /\ hresp = [r \in Starts |-> IF r = 1 THEN 200 ELSE 0]
    /\ gpc = [r \in Starts |-> IF r = 1 THEN "accepting" ELSE "none"]
    /\ gheld = [r \in Starts |-> None]
    /\ listenerOpen = [r \in Starts |-> r = 1]
    /\ clientOpen = [r \in Starts |-> r = 1]
    /\ quitClosed = [r \in Starts |-> 0]
    /\ spc = [s \in Stops |-> "idle"]
    /\ sid = [s \in Stops |-> ""]
    /\ sheld = [s \in Stops |-> None]
    /\ sresp = [s \in Stops |-> 0]
    /\ found = [r \in Starts |-> 0]
    /\ quietAtStop = [s \in Stops |-> FALSE]
    /\ startedAfter = [s \in Stops |-> FALSE]
    /\ stoppedSince = [r \in Starts |-> FALSE]

\* a forwardConnection that returns without closing localConn
DeferLocalCloseNot(c) == localOpen

\* forwardConnection: defer func() { _ = localConn.Close() }()
DeferLocalClose(c) == [localOpen EXCEPT ![c] = FALSE]

\* a forwardConnection that returns without closing remoteConn
DeferRemoteCloseNot(c) == remoteOpen

\* forwardConnection: defer func() { _ = remoteConn.Close() }()
DeferRemoteClose(c) == [remoteOpen EXCEPT ![c] = FALSE]

\* number of client.Dial failures so far
DialFailures == Cardinality({c \in Conns : fpc[c] = "returned" /\ cps[c]["toLocal"] = "none"})

\* the accept loop of session r: localListener.Accept() returns a connection,
\* go forwardConnection(client, conn, ...)
AcceptConn(r, c) ==
    /\ gpc[r] = "accepting"
    /\ listenerOpen[r]
    /\ fpc[c] = "none"
    /\ \A q \in Conns : q < c => fpc[q] # "none"
    /\ fpc' = [fpc EXCEPT ![c] = "dial"]
    /\ fsess' = [fsess EXCEPT ![c] = r]
    /\ localOpen' = [localOpen EXCEPT ![c] = TRUE]
    /\ failsBefore' = [failsBefore EXCEPT ![c] = DialFailures]
    /\ UNCHANGED <<remoteOpen, cps, doneCh>>
    /\ UNCHANGED svcVars
    /\ UNCHANGED notFwdVars

\* forwardConnection: client.Dial("tcp", remoteAddr); on an error log, return (the
\* deferred localConn.Close() runs); otherwise the two copy goroutines start and
\* the function waits on done. A closed transport cannot dial.
FwdDial(c, ok) ==
    /\ fpc[c] = "dial"
    /\ ok => clientOpen[fsess[c]]
    /\ IF ok
       THEN /\ remoteOpen' = [remoteOpen EXCEPT ![c] = TRUE]
            /\ cps' = [cps EXCEPT ![c] = [d \in Dirs |-> "copying"]]
            /\ fpc' = [fpc EXCEPT ![c] = "waiting"]
            /\ UNCHANGED localOpen
       ELSE /\ localOpen' = DeferLocalClose(c)
            /\ fpc' = [fpc EXCEPT ![c] = "returned"]
            /\ UNCHANGED <<remoteOpen, cps>>
    /\ UNCHANGED <<fsess, doneCh, failsBefore>>
    /\ UNCHANGED svcVars
    /\ UNCHANGED notFwdVars

\* a copy goroutine: io.Copy returns, at end-of-stream or on an I/O error (at the
\* latest when one of the two connections is closed)
CopyEnd(c, d) ==
    /\ cps[c][d] = "copying"
    /\ cps' = [cps EXCEPT ![c][d] = "sending"]
    /\ UNCHANGED <<fpc, fsess, localOpen, remoteOpen, doneCh, failsBefore>>
    /\ UNCHANGED svcVars
    /\ UNCHANGED notFwdVars

\* a copy goroutine: done <- struct{}{}, which waits while the channel is full
CopySend(c, d) ==
    /\ cps[c][d] = "sending"
    /\ doneCh[c] < 2
    /\ doneCh' = [doneCh EXCEPT ![c] = @ + 1]
    /\ cps' = [cps EXCEPT ![c][d] = "done"]
    /\ UNCHANGED <<fpc, fsess, localOpen, remoteOpen, failsBefore>>
    /\ UNCHANGED svcVars
    /\ UNCHANGED notFwdVars

\* forwardConnection: <-done, return; the deferred remoteConn.Close() and
\* localConn.Close() run
FwdReturn(c) ==
    /\ fpc[c] = "waiting"
    /\ doneCh[c] > 0
    /\ doneCh' = [doneCh EXCEPT ![c] = @ - 1]
    /\ remoteOpen' = DeferRemoteClose(c)
    /\ localOpen' = DeferLocalClose(c)
    /\ fpc' = [fpc EXCEPT ![c] = "returned"]
    /\ UNCHANGED <<fsess, cps, failsBefore>>
    /\ UNCHANGED svcVars
    /\ UNCHANGED notFwdVars

\* the forwarders' steps, and the steps of part 1 that end a session
FwdNext ==
    \/ \E r \in Starts, c \in Conns : AcceptConn(r, c)
    \/ \E c \in Conns, ok \in BOOLEAN : FwdDial(c, ok)
    \/ \E c \in Conns, d \in Dirs : CopyEnd(c, d)
    \/ \E c \in Conns, d \in Dirs : CopySend(c, d)
    \/ \E c \in Conns : FwdReturn(c)
    \/ \E r \in Starts : AcceptExit(r)
    \/ \E r \in Starts : AcceptTeardown(r)
    \/ \E s \in Stops, id \in IDSpace : HandleStopReq(s, id)
    \/ \E s \in Stops : HandleStopTeardown(s)

(***************************************************************************)
(* Part 6: m.mu and handleStatus of the tunnel service.  The other         *)
(* sections under m.mu are the single steps of part 1; each needs the lock *)
(* free.                                                                   *)
(***************************************************************************)

LockInit ==
    /\ mu = None
    /\ tpc = [q \in StatusReqs |-> "idle"]
    /\ tresp = [q \in StatusReqs |-> {}]

\* handleStatus: m.mu.Lock(); defer m.mu.Unlock(); the loop over m.tunnels builds
\* statuses; the handler goes on to write the response
StatusLock(q) ==
    /\ tpc[q] = "idle"
    /\ mu = None
    /\ mu' = q
    /\ tresp' = [tresp EXCEPT ![q] = handleStatus]
    /\ tpc' = [tpc EXCEPT ![q] = "encode"]
    /\ UNCHANGED notLockVars

\* handleStatus: json.NewEncoder(w).Encode(statuses) returns, the handler
\* returns, the deferred m.mu.Unlock() runs
StatusReturn(q) ==
    /\ tpc[q] = "encode"
    /\ mu' = None
    /\ tpc' = [tpc EXCEPT ![q] = "done"]
    /\ UNCHANGED tresp
    /\ UNCHANGED notLockVars

\* handleStart: the check of the id under m.mu (the section is the step of part 1)
LockedStartReq(r, id, port) == mu = None /\ HandleStartReq(r, id, port)

\* handleStart: the re-check under m.mu
LockedStartReply(r) == mu = None /\ HandleStartReply(r)

\* startTunnel: the insert under m.mu
LockedRegister(r) == mu = None /\ StartTunnelRegister(r)

\* the accept goroutine's stopTunnel: lookup and delete under m.mu
LockedAcceptExit(r) == mu = None /\ AcceptExit(r)

\* handleStop's stopTunnel: lookup and delete under m.mu
LockedStopReq(s, id) == mu = None /\ HandleStopReq(s, id)

LockNext ==
    \/ \E q \in StatusReqs : StatusLock(q)
    \/ \E q \in StatusReqs : StatusReturn(q)
    \/ \E r \in Starts, id \in ReqIDs, port \in Ports : LockedStartReq(r, id, port)
    \/ \E r \in Starts : LockedStartReply(r)
    \/ \E r \in Starts, outcome \in OpenOutcomes : StartTunnelOpen(r, outcome)
    \/ \E r \in Starts : LockedRegister(r)
    \/ \E r \in Starts : LockedAcceptExit(r)
    \/ \E r \in Starts : AcceptTeardown(r)
    \/ \E s \in Stops, id \in IDSpace : LockedStopReq(s, id)
    \/ \E s \in Stops : HandleStopTeardown(s)

(***************************************************************************)
(* Part 7: the HTTP front of the tunnel service: enableCORS, the handlers  *)
(* with their request bodies, and startTunnel step by step.  Requests are  *)
(* served one after the other; one startTunnel goroutine runs at a time.   *)
(***************************************************************************)

\* the keys of m.tunnels
RegIDs == IDVals \cup {DefaultID(p) : p \in LocalPortVals}

\* the absent entry of m.tunnels
NoTunnel == [lport |-> 0, rport |-> 0]

\* no request in progress
NoReq == [id |-> "", ssh_port |-> 0, user |-> "", lport |-> 0, rport |-> 0]

\* no response yet; enableCORS has set the headers when cors is TRUE
NoResp(cors) == [code |-> 0, body |-> "", cors |-> cors]

\* a handleStart that does not test remote_port
MissingButRemotePort(b) ==
    \/ b.ssh_host = "" \/ b.ssh_port = 0 \/ b.private_key = ""
    \/ b.local_port = 0 \/ b.remote_host = ""

\* handleStart: if req.SSHHost == "" || req.SSHPort == 0 || ... || req.RemotePort == 0
Missing(b) ==
    \/ b.ssh_host = "" \/ b.ssh_port = 0 \/ b.private_key = ""
    \/ b.local_port = 0 \/ b.remote_host = "" \/ b.remote_port = 0

\* handleStart: if req.SSHUser == "" { req.SSHUser = "root" }
EffUser(user) == IF user = "" THEN "root" ELSE user

\* handleStart: req after the two defaults
Defaults(b) ==
    [id |-> EffID(b.id, b.local_port), ssh_port |-> b.ssh_port,
     user |-> EffUser(b.ssh_user), lport |-> b.local_port, rport |-> b.remote_port]

\* an enableCORS that passes OPTIONS on to the handler
IsOptionsNever(method) == FALSE

\* enableCORS: if r.Method == "OPTIONS" { w.WriteHeader(http.StatusOK); return }
IsOptions(method) == method = "OPTIONS"

\* enableCORS sets the three Access-Control headers before anything else;
\* http.Error and WriteHeader leave them in place
Response(code, body) == [code |-> code, body |-> body, cors |-> TRUE]

\* a startTunnel that returns on a bind failure with the client open
LeaveClient == TRUE

\* startTunnel, net.Listen failed: _ = client.Close()
CloseClient == FALSE

\* the local ports with an open listener
BoundPorts ==
    {mtunnels[id].lport : id \in {i \in RegIDs : mtunnels[i] # NoTunnel}}
        \cup (IF tListener THEN {cur.lport} ELSE {})

\* no request being served
NoRequest == [endpoint |-> "", method |-> "", decodes |-> FALSE, body |-> ZeroBody]

\* the bodies of the requests to /stop: {"id": ...}
StopBodies == {[ZeroBody EXCEPT !.id = i] : i \in RegIDs}

ReqInit ==
    /\ mtunnels = [id \in RegIDs |-> NoTunnel]
    /\ inreq = NoRequest
    /\ hstep = "idle"
    /\ tstep = "none"
    /\ cur = NoReq
    /\ tClient = FALSE
    /\ tListener = FALSE
    /\ tAccept = FALSE
    /\ resp = NoResp(FALSE)

\* how a startTunnel goroutine that has returned ended
Returned == {"none", "done", "failedKey", "failedDial", "failedBind"}

\* no handler and no startTunnel goroutine in progress
Quiet == hstep = "idle" /\ tstep \in Returned

\* req while the handler or the goroutine is in progress
Req(h, t) == IF h = "idle" /\ t \in Returned THEN NoReq ELSE cur

\* the server hands a request to the handler the mux has for its path
Receive(endpoint, method, decodes, b) ==
    /\ Quiet
    /\ inreq' = [endpoint |-> endpoint, method |-> method, decodes |-> decodes, body |-> b]
    /\ hstep' = "received"
    /\ resp' = NoResp(FALSE)
    /\ UNCHANGED <<mtunnels, tstep, cur, tClient, tListener, tAccept>>
    /\ UNCHANGED notReqVars

\* /start: enableCORS, then handleStart up to the spawn of the startTunnel goroutine
ServeStart ==
    /\ hstep = "received"
    /\ inreq.endpoint = "/start"
    /\ inreq' = NoRequest
    /\ IF IsOptions(inreq.method)
       THEN /\ resp' = Response(200, "")
            /\ hstep' = "idle"
            /\ UNCHANGED <<mtunnels, tstep, cur, tClient, tListener, tAccept>>
       ELSE IF inreq.method # "POST"
       THEN /\ resp' = Response(405, "Method not allowed")
            /\ hstep' = "idle"
            /\ UNCHANGED <<mtunnels, tstep, cur, tClient, tListener, tAccept>>
       ELSE IF ~inreq.decodes
       THEN /\ resp' = Response(400, "Invalid request body")
            /\ hstep' = "idle"
            /\ UNCHANGED <<mtunnels, tstep, cur, tClient, tListener, tAccept>>
       ELSE IF Missing(inreq.body)
       THEN /\ resp' = Response(400, "Missing required fields")
            /\ hstep' = "idle"
            /\ UNCHANGED <<mtunnels, tstep, cur, tClient, tListener, tAccept>>
       ELSE IF mtunnels[Defaults(inreq.body).id] # NoTunnel
       THEN /\ resp' = Response(409, Defaults(inreq.body).id)
            /\ hstep' = "idle"
            /\ UNCHANGED <<mtunnels, tstep, cur, tClient, tListener, tAccept>>
       ELSE /\ cur' = Defaults(inreq.body)
            /\ hstep' = "sleeping"
            /\ tstep' = "parse"
            /\ tAccept' = FALSE
            /\ resp' = NoResp(TRUE)
            /\ UNCHANGED <<mtunnels, tClient, tListener>>
    /\ UNCHANGED notReqVars

\* startTunnel: ssh.ParsePrivateKey
TunnelParse(ok) ==
    /\ tstep = "parse"
    /\ tstep' = IF ok THEN "dial" ELSE "failedKey"
    /\ cur' = Req(hstep, tstep')
    /\ UNCHANGED <<mtunnels, inreq, hstep, tClient, tListener, tAccept, resp>>
    /\ UNCHANGED notReqVars

\* startTunnel: ssh.Dial("tcp", sshAddr, config); no port below 1 can be dialled
TunnelDial(ok) ==
    /\ tstep = "dial"
    /\ ok => cur.ssh_port > 0
    /\ tstep' = IF ok THEN "listen" ELSE "failedDial"
    /\ tClient' = ok
    /\ cur' = Req(hstep, tstep')
    /\ UNCHANGED <<mtunnels, inreq, hstep, tListener, tAccept, resp>>
    /\ UNCHANGED notReqVars

\* startTunnel: net.Listen("tcp", "0.0.0.0:<LocalPort>"), which fails for a port
\* below 0 and for a port in use; on failure client.Close() and return
TunnelListen(ok) ==
    /\ tstep = "listen"
    /\ ok => cur.lport > 0 /\ cur.lport \notin BoundPorts
    /\ IF ok
       THEN /\ tListener' = TRUE
            /\ tstep' = "register"
            /\ UNCHANGED tClient
       ELSE /\ tClient' = CloseClient
            /\ tstep' = "failedBind"
            /\ UNCHANGED tListener
    /\ cur' = Req(hstep, tstep')
    /\ UNCHANGED <<mtunnels, inreq, hstep, tAccept, resp>>
    /\ UNCHANGED notReqVars

\* startTunnel: t := &ActiveTunnel{...}; m.tunnels[req.ID] = t under m.mu; the
\* accept goroutine starts; return nil
TunnelRegister ==
    /\ tstep = "register"
    /\ mtunnels' = [mtunnels EXCEPT ![cur.id] =
                       [lport |-> cur.lport, rport |-> cur.rport]]
    /\ tClient' = FALSE
    /\ tListener' = FALSE
    /\ tAccept' = TRUE
    /\ tstep' = "done"
    /\ cur' = Req(hstep, tstep')
    /\ UNCHANGED <<inreq, hstep, resp>>
    /\ UNCHANGED notReqVars

\* handleStart after time.Sleep(500ms): the re-check and the response
StartReply ==
    /\ hstep = "sleeping"
    /\ resp' = IF mtunnels[cur.id] # NoTunnel
               THEN Response(200, cur.id)
               ELSE Response(500, "Failed to establish tunnel connection immediately")
    /\ hstep' = "idle"
    /\ cur' = Req(hstep', tstep)
    /\ UNCHANGED <<mtunnels, inreq, tstep, tClient, tListener, tAccept>>
    /\ UNCHANGED notReqVars

\* /stop: enableCORS, then handleStop and stopTunnel
ServeStop ==
    /\ hstep = "received"
    /\ inreq.endpoint = "/stop"
    /\ inreq' = NoRequest
    /\ hstep' = "idle"
    /\ IF IsOptions(inreq.method)
       THEN /\ resp' = Response(200, "")
            /\ UNCHANGED mtunnels
       ELSE IF inreq.method # "POST"
       THEN /\ resp' = Response(405, "Method not allowed")
            /\ UNCHANGED mtunnels
       ELSE IF ~inreq.decodes
       THEN /\ resp' = Response(400, "Invalid request body")
            /\ UNCHANGED mtunnels
       ELSE IF mtunnels[inreq.body.id] = NoTunnel
       THEN /\ resp' = Response(404, "tunnel not found")
            /\ UNCHANGED mtunnels
       ELSE /\ mtunnels' = [mtunnels EXCEPT ![inreq.body.id] = NoTunnel]
            /\ resp' = Response(200, "Tunnel stopped")
    /\ UNCHANGED <<tstep, cur, tClient, tListener, tAccept>>
    /\ UNCHANGED notReqVars

\* /status: enableCORS, then handleStatus, which answers every method
ServeStatus ==
    /\ hstep = "received"
    /\ inreq.endpoint = "/status"
    /\ inreq' = NoRequest
    /\ hstep' = "idle"
    /\ resp' = IF IsOptions(inreq.method) THEN Response(200, "")
                                         ELSE Response(200, "statuses")
    /\ UNCHANGED <<mtunnels, tstep, cur, tClient, tListener, tAccept>>
    /\ UNCHANGED notReqVars

\* /health: enableCORS, then handleHealth
ServeHealth ==
    /\ hstep = "received"
    /\ inreq.endpoint = "/health"
    /\ inreq' = NoRequest
    /\ hstep' = "idle"
    /\ resp' = IF IsOptions(inreq.method) THEN Response(200, "") ELSE Response(200, "OK")
    /\ UNCHANGED <<mtunnels, tstep, cur, tClient, tListener, tAccept>>
    /\ UNCHANGED notReqVars

ReqNext ==
    \/ \E b \in Bodies : Receive("/start", "POST", TRUE, b)
    \/ \E method \in Methods, decodes \in BOOLEAN, b \in {ZeroBody, FullBody} :
          Receive("/start", method, decodes, b)
    \/ \E method \in Methods, decodes \in BOOLEAN, b \in StopBodies :
          Receive("/stop", method, decodes, b)
    \/ \E method \in Methods : Receive("/status", method, TRUE, ZeroBody)
    \/ \E method \in Methods : Receive("/health", method, TRUE, ZeroBody)
    \/ ServeStart
    \/ \E ok \in BOOLEAN : TunnelParse(ok)
    \/ \E ok \in BOOLEAN : TunnelDial(ok)
    \/ \E ok \in BOOLEAN : TunnelListen(ok)
    \/ TunnelRegister
    \/ StartReply
    \/ ServeStop
    \/ ServeStatus
    \/ ServeHealth

(***************************************************************************)
(* Part 8: the start loop of connectMultipleTunnels (the plain CLI).       *)
(***************************************************************************)

\* connectMultipleTunnels at its start loop: cmds := make([]*exec.Cmd, 0, len(plans))
CmtInit ==
    /\ cmpc = "starting"
    /\ cmk = 1
    /\ cmProc = [i \in PlanIdx |-> "none"]
    /\ cmret = "none"

\* a rollback that stops no process
stopCmdNot(p, i) == p

\* stopSSHProcess(cmd): Signal(os.Interrupt), Sleep(250ms), Kill, cmd.Process.Wait()
stopCmd(p, i) == [p EXCEPT ![i] = "reaped"]

RECURSIVE StopCmds(_, _)
\* for _, running := range cmds { _ = stopSSHProcess(running) }
StopCmds(p, cmds) ==
    IF cmds = <<>> THEN p ELSE StopCmds(stopCmd(p, Head(cmds)), Tail(cmds))

\* connectMultipleTunnels: cmds after cmk - 1 successful launches
CmtCmds == [k \in 1..(cmk - 1) |-> k]

\* connectMultipleTunnels, one turn of the start loop:
\* startTunnelConnectionBackground; on an error stop every process of cmds and
\* return the error
CmtStart(ok) ==
    /\ cmpc = "starting"
    /\ IF ok
       THEN /\ cmProc' = [cmProc EXCEPT ![cmk] = "running"]
            /\ cmk' = cmk + 1
            /\ cmpc' = IF cmk = PlanLen THEN "started" ELSE cmpc
            /\ UNCHANGED cmret
       ELSE /\ cmProc' = StopCmds(cmProc, CmtCmds)
            /\ cmpc' = "returned"
            /\ cmret' = "error"
            /\ UNCHANGED cmk
    /\ UNCHANGED notCmtVars

\* an ssh process ends on its own; nothing has waited for it yet
CmtProcExit(i) ==
    /\ cmProc[i] = "running"
    /\ cmProc' = [cmProc EXCEPT ![i] = "zombie"]
    /\ UNCHANGED <<cmpc, cmk, cmret>>
    /\ UNCHANGED notCmtVars

CmtNext ==
    \/ \E ok \in BOOLEAN : CmtStart(ok)
    \/ \E i \in PlanIdx : CmtProcExit(i)


(***************************************************************************)
(* Part 11: the running phase of connectMultipleTunnels: the goroutine     *)
(* that reads the stop line, the wait goroutines with exitCh, and the      *)
(* select loop.  A reader blocked in stdin.ReadString returns when a line  *)
(* (or the end of the input) arrives; of two readers blocked on the shared *)
(* reader either one may get it.                                           *)
(***************************************************************************)

CmrInit ==
    /\ cmWait = [i \in PlanIdx |-> "none"]
    /\ exitCh = 0
    /\ cmRunning = 0
    /\ cmPrompt = "none"
    /\ stopCh = FALSE
    /\ sigCh = 0

\* an exitCh one slot short of the number of processes
ExitCapShort == PlanLen - 1

\* exitCh := make(chan string, len(cmds))
ExitCap == PlanLen

\* sigCh := make(chan os.Signal, 1)
SigCap == 1

\* connectMultipleTunnels after the start loop: signal.Notify, the goroutine of
\* the stop line, the wait goroutines, running := len(cmds)
CmtBegin ==
    /\ cmpc = "started"
    /\ cmpc' = "select"
    /\ cmPrompt' = "reading"
    /\ cmWait' = [i \in PlanIdx |-> "waiting"]
    /\ cmRunning' = PlanLen
    /\ UNCHANGED <<cmk, cmProc, cmret, exitCh, stopCh, sigCh>>
    /\ UNCHANGED notCmVars

\* an interrupt or SIGTERM is delivered while signal.Notify is in force; a
\* signal that finds the buffer full is dropped
CmtSignal ==
    /\ cmpc \in {"select", "waitEnter"}
    /\ sigCh < SigCap
    /\ sigCh' = sigCh + 1
    /\ UNCHANGED <<cmWait, exitCh, cmRunning, cmPrompt, stopCh>>
    /\ UNCHANGED cmtVars
    /\ UNCHANGED notCmVars

\* the goroutine of the stop line: prompt("") returns, close(stopCh)
CmtPromptReturn ==
    /\ cmPrompt = "reading"
    /\ cmPrompt' = "done"
    /\ stopCh' = TRUE
    /\ UNCHANGED <<cmWait, exitCh, cmRunning, sigCh>>
    /\ UNCHANGED cmtVars
    /\ UNCHANGED notCmVars

\* a wait goroutine: cmd.Wait() returns once the process has ended
CmtWaitReturn(i) ==
    /\ cmWait[i] = "waiting"
    /\ cmProc[i] \in {"zombie", "reaped"}
    /\ cmProc' = [cmProc EXCEPT ![i] = "reaped"]
    /\ cmWait' = [cmWait EXCEPT ![i] = "sending"]
    /\ UNCHANGED <<cmpc, cmk, cmret, exitCh, cmRunning, cmPrompt, stopCh, sigCh>>
    /\ UNCHANGED notCmVars

\* a wait goroutine: exitCh <- msg, which blocks while the buffer is full
CmtSend(i) ==
    /\ cmWait[i] = "sending"
    /\ exitCh < ExitCap
    /\ exitCh' = exitCh + 1
    /\ cmWait' = [cmWait EXCEPT ![i] = "done"]
    /\ UNCHANGED <<cmRunning, cmPrompt, stopCh, sigCh>>
    /\ UNCHANGED cmtVars
    /\ UNCHANGED notCmVars

\* the select loop, case <-stopCh: stop every process, then waitForEnter
CmtSelectStop ==
    /\ cmpc = "select"
    /\ stopCh
    /\ cmProc' = StopCmds(cmProc, CmtCmds)
    /\ cmpc' = "waitEnter"
    /\ UNCHANGED <<cmk, cmret>>
    /\ UNCHANGED cmrVars
    /\ UNCHANGED notCmVars

\* the select loop, case sig := <-sigCh: stop every process, then waitForEnter
CmtSelectSig ==
    /\ cmpc = "select"
    /\ sigCh > 0
    /\ sigCh' = sigCh - 1
    /\ cmProc' = StopCmds(cmProc, CmtCmds)
    /\ cmpc' = "waitEnter"
    /\ UNCHANGED <<cmk, cmret, cmWait, exitCh, cmRunning, cmPrompt, stopCh>>
    /\ UNCHANGED notCmVars

\* the select loop, case msg := <-exitCh: running--; waitForEnter after the last
CmtSelectExit ==
    /\ cmpc = "select"
    /\ exitCh > 0
    /\ exitCh' = exitCh - 1
    /\ cmRunning' = cmRunning - 1
    /\ cmpc' = IF cmRunning' = 0 THEN "waitEnter" ELSE cmpc
    /\ UNCHANGED <<cmk, cmProc, cmret, cmWait, cmPrompt, stopCh, sigCh>>
    /\ UNCHANGED notCmVars

\* waitForEnter: prompt(message) returns; signal.Stop(sigCh); return nil
CmtEnterReturn ==
    /\ cmpc = "waitEnter"
    /\ cmpc' = "returned"
    /\ cmret' = "nil"
    /\ UNCHANGED <<cmk, cmProc>>
    /\ UNCHANGED cmrVars
    /\ UNCHANGED notCmVars

CmrNext ==
    \/ CmtBegin
    \/ CmtSignal
    \/ CmtPromptReturn
    \/ \E i \in PlanIdx : CmtWaitReturn(i)
    \/ \E i \in PlanIdx : CmtSend(i)
    \/ CmtSelectStop
    \/ CmtSelectSig
    \/ CmtSelectExit
    \/ CmtEnterReturn

\* startMultiTunnelsCmd: events := make(chan multiEvent, len(plans)*2)
EventsCap == PlanLen * 2

\* connectMultipleTunnels from its start loop to its return
CmNext == CmtNext \/ CmrNext

\* the start of a multi-tunnel plan in the TUI and in the plain CLI
StartNext == TuiNext \/ CmtNext


(***************************************************************************)
(* Part 9: the single-tunnel session of the projects TUI.  A start command *)
(* runs beside Update, which leaves the port input on the screen until the *)
(* singleStartMsg arrives, so enter can issue a start while another one is *)
(* under way.  m.singleRunningPort follows m.singleRunningCmd and is left  *)
(* out.                                                                    *)
(***************************************************************************)

SglInit ==
    /\ singleRunningCmd = None
    /\ sst = [k \in SingleIdx |-> "none"]
    /\ sproc = [k \in SingleIdx |-> "none"]
    /\ swait = [k \in SingleIdx |-> "none"]
    /\ sstopKey = [k \in SingleIdx |-> FALSE]

\* the multi-tunnel fields of the model and the start command's position
multiFields == <<multiRunningCmds, multiRunningState, multiEvents, cpc, ck, pst,
                 chans, readers>>

\* Update, key enter on "Connect Single Tunnel" in viewContainerMenu, and on a
\* tunnel in viewTunnelsSingle: setPortInput(portInputSingle, ...)
KeyEnterNavSingle ==
    /\ ~quit
    /\ view \in {"viewContainerMenu", "viewTunnelsSingle"}
    /\ view' = IF view = "viewContainerMenu" THEN "viewTunnelsSingle"
               ELSE "viewPortInput"
    /\ UNCHANGED <<status, errMsg, quit, loads>>
    /\ UNCHANGED multiFields
    /\ UNCHANGED sglVars
    /\ UNCHANGED notAppVars

\* Update, key esc in viewPortInput (portInputSingle) and in viewTunnelsSingle
KeyEscSingle ==
    /\ ~quit
    /\ view \in {"viewPortInput", "viewTunnelsSingle"}
    /\ view' = IF view = "viewPortInput" THEN "viewTunnelsSingle"
               ELSE "viewContainerMenu"
    /\ errMsg' = IF view = "viewPortInput" THEN "" ELSE errMsg
    /\ UNCHANGED <<status, quit, loads>>
    /\ UNCHANGED multiFields
    /\ UNCHANGED sglVars
    /\ UNCHANGED notAppVars

\* Update, viewPortInput, key enter: an invalid port is refused, otherwise
\* return m, startSingleTunnelCmd(...)
KeyEnterPort(valid) ==
    /\ ~quit
    /\ view = "viewPortInput"
    /\ IF valid
       THEN /\ \E k \in SingleIdx :
                 /\ sst[k] = "none"
                 /\ \A j \in 1..(k - 1) : sst[j] # "none"
                 /\ sst' = [sst EXCEPT ![k] = "launching"]
            /\ errMsg' = ""
            /\ status' = "Starting tunnel session..."
       ELSE /\ errMsg' = "Invalid port"
            /\ UNCHANGED <<status, sst>>
    /\ UNCHANGED <<view, quit, loads>>
    /\ UNCHANGED multiFields
    /\ UNCHANGED <<singleRunningCmd, sproc, swait, sstopKey>>
    /\ UNCHANGED notAppVars

\* startSingleTunnelCmd: startTunnelConnectionBackground (cmd.Start())
SingleLaunch(k, ok) ==
    /\ ~quit
    /\ sst[k] = "launching"
    /\ sst' = [sst EXCEPT ![k] = IF ok THEN "msgOk" ELSE "msgErr"]
    /\ sproc' = [sproc EXCEPT ![k] = IF ok THEN "running" ELSE @]
    /\ UNCHANGED <<singleRunningCmd, swait, sstopKey>>
    /\ UNCHANGED tuiVars
    /\ UNCHANGED notAppVars

\* Update(singleStartMsg)
UpdateSingleStart(k) ==
    /\ ~quit
    /\ sst[k] \in {"msgOk", "msgErr"}
    /\ sst' = [sst EXCEPT ![k] = "done"]
    /\ IF sst[k] = "msgErr"
       THEN /\ errMsg' = "err"
            /\ status' = "Failed to start tunnel"
            /\ view' = "viewContainerMenu"
            /\ UNCHANGED <<singleRunningCmd, swait>>
       ELSE /\ errMsg' = ""
            /\ singleRunningCmd' = k
            /\ view' = "viewRunningSingle"
            /\ status' = "Tunnel open"
            /\ swait' = [swait EXCEPT ![k] = "waiting"]
    /\ UNCHANGED <<quit, loads, sproc, sstopKey>>
    /\ UNCHANGED multiFields
    /\ UNCHANGED notAppVars

\* the ssh process of a start ends on its own
SingleProcExit(k) ==
    /\ ~quit
    /\ sproc[k] = "running"
    /\ sproc' = [sproc EXCEPT ![k] = "exited"]
    /\ UNCHANGED <<singleRunningCmd, sst, swait, sstopKey>>
    /\ UNCHANGED tuiVars
    /\ UNCHANGED notAppVars

\* waitSingleTunnelDoneCmd: cmd.Wait() returns, with an error when the process
\* was stopped
SingleWaitReturn(k, err) ==
    /\ ~quit
    /\ swait[k] = "waiting"
    /\ sproc[k] \in {"exited", "killed"}
    /\ sproc[k] = "killed" => err
    /\ swait' = [swait EXCEPT ![k] = IF err THEN "msgErr" ELSE "msgNil"]
    /\ UNCHANGED <<singleRunningCmd, sst, sproc, sstopKey>>
    /\ UNCHANGED tuiVars
    /\ UNCHANGED notAppVars

\* Update(singleSSHDoneMsg)
UpdateSingleDone(k) ==
    /\ ~quit
    /\ swait[k] \in {"msgNil", "msgErr"}
    /\ swait' = [swait EXCEPT ![k] = "done"]
    /\ errMsg' = IF swait[k] = "msgErr" THEN "err" ELSE ""
    /\ status' = IF swait[k] = "msgErr" THEN "Tunnel session ended with error"
                 ELSE "Tunnel session closed"
    /\ singleRunningCmd' = None
    /\ view' = "viewContainerMenu"
    /\ loads' = loads + 1
    /\ UNCHANGED <<quit, sst, sproc, sstopKey>>
    /\ UNCHANGED multiFields
    /\ UNCHANGED notAppVars

\* Update, viewRunningSingle, key s, enter or esc
KeyStopSingle ==
    /\ ~quit
    /\ view = "viewRunningSingle"
    /\ stopSingleRunning
    /\ sstopKey' = [k \in SingleIdx |-> sstopKey[k] \/ k = singleRunningCmd]
    /\ view' = "viewContainerMenu"
    /\ status' = "Stopped tunnel session"
    /\ loads' = loads + 1
    /\ UNCHANGED <<errMsg, quit, sst, swait>>
    /\ UNCHANGED multiFields
    /\ UNCHANGED notAppVars

SglNext ==
    \/ KeyEnterNavSingle
    \/ KeyEscSingle
    \/ \E valid \in BOOLEAN : KeyEnterPort(valid)
    \/ \E k \in SingleIdx, ok \in BOOLEAN : SingleLaunch(k, ok)
    \/ \E k \in SingleIdx : UpdateSingleStart(k)
    \/ \E k \in SingleIdx : SingleProcExit(k)
    \/ \E k \in SingleIdx, err \in BOOLEAN : SingleWaitReturn(k, err)
    \/ \E k \in SingleIdx : UpdateSingleDone(k)
    \/ KeyStopSingle

\* no multi-tunnel start has been issued
MultiIdle == cpc = "none"

\* no single-tunnel start has been issued
SingleIdle == \A k \in SingleIdx : sst[k] = "none"

\* the projects TUI: the multi-tunnel and the single-tunnel session; a
\* behaviour issues multi-tunnel starts or single-tunnel starts, not both
AppNext ==
    \/ TuiNext /\ (SingleIdle \/ MultiIdle')
    \/ SglNext /\ (MultiIdle \/ SingleIdle')


(***************************************************************************)
(* Part 10: ensureAuth and login over the stored token.  A token is a      *)
(* string as in Part 4; the answer of the API to a whoami request is any   *)
(* of WhoResults.                                                          *)
(***************************************************************************)

\* the config file: absent, not the JSON of a storeConfig, or holding a token
AbsentFile == [kind |-> "absent", token |-> <<>>]
CorruptFile == [kind |-> "corrupt", token |-> <<>>]
File(token) == [kind |-> "token", token |-> token]
Files == {AbsentFile, CorruptFile} \cup {File(t) : t \in Strings}

\* errors: nil, an *apiError with its Status, any other error
NilErr == [kind |-> "nil", status |-> 0]
OtherErr == [kind |-> "other", status |-> 0]
ApiErr(code) == [kind |-> "api", status |-> code]
\* no fetchWhoAmI yet
NoWho == [kind |-> "none", status |-> 0]

\* the outcomes of the whoami request: status 0 stands for a failed client.Do,
\* decodes for the body of a 2xx answer being the JSON of a user
WhoStatuses == {0, 200, 401, 403, 404, 500}
WhoResults == [status : WhoStatuses, decodes : BOOLEAN]

\* doJSONRequest: the error it returns
doJSONRequest(res) ==
    IF res.status = 0 THEN OtherErr
    ELSE IF res.status < 200 \/ res.status >= 300 THEN ApiErr(res.status)
    ELSE IF ~res.decodes THEN OtherErr
    ELSE NilErr

\* an ensureAuth that takes every API error for an expired session
IsExpiredAny(err) == err.kind = "api"

\* ensureAuth: errors.As(err, &apiErr) && (apiErr.Status == 401 || apiErr.Status == 403)
IsExpired(err) == err.kind = "api" /\ (err.status = 401 \/ err.status = 403)

\* getToken: os.ReadFile fails (readErr), the file does not exist, json.Unmarshal
\* fails, or cfg.Token
getToken(file, readErr) ==
    IF readErr THEN [token |-> <<>>, err |-> OtherErr]
    ELSE IF file.kind = "absent" THEN [token |-> <<>>, err |-> NilErr]
    ELSE IF file.kind = "corrupt" THEN [token |-> <<>>, err |-> OtherErr]
    ELSE [token |-> file.token, err |-> NilErr]

\* deleteToken: os.Remove, which may fail and leave the file
deleteToken(file, removed) == IF removed THEN AbsentFile ELSE file

\* ensureAuth has just been called, the config file is in any state
AuthInit ==
    /\ store \in Files
    /\ store0 = store
    /\ eapc = "start"
    /\ etoken = <<>>
    /\ einput = <<>>
    /\ eret = [token |-> <<>>, err |-> NilErr]
    /\ ewho = NoWho
    /\ edeleted = FALSE

\* the same with no config file
AuthInit0 == AuthInit /\ store = AbsentFile

\* ensureAuth: token, err := getToken(); the test of strings.TrimSpace(token)
EaStart(readErr) ==
    /\ eapc = "start"
    /\ IF getToken(store, readErr).err # NilErr
       THEN /\ eret' = getToken(store, readErr)
            /\ eapc' = "returned"
            /\ UNCHANGED etoken
       ELSE /\ etoken' = getToken(store, readErr).token
            /\ eapc' = IF TrimSpace(etoken') = <<>> THEN "prompt" ELSE "whoami"
            /\ UNCHANGED eret
    /\ UNCHANGED <<store, store0, einput, ewho, edeleted>>
    /\ UNCHANGED notAuthVars

\* ensureAuth: u, err := fetchWhoAmI(token) and what follows it up to login("")
EaWhoAmI(res, removed) ==
    /\ eapc = "whoami"
    /\ ewho' = doJSONRequest(res)
    /\ IF doJSONRequest(res) = NilErr
       THEN /\ eret' = [token |-> etoken, err |-> NilErr]
            /\ eapc' = "returned"
            /\ UNCHANGED <<store, edeleted>>
       ELSE IF IsExpired(doJSONRequest(res))
       THEN /\ store' = deleteToken(store, removed)
            /\ edeleted' = TRUE
            /\ eapc' = "prompt"
            /\ UNCHANGED eret
       ELSE /\ eret' = [token |-> <<>>, err |-> doJSONRequest(res)]
            /\ eapc' = "returned"
            /\ UNCHANGED <<store, edeleted>>
    /\ UNCHANGED <<store0, etoken, einput>>
    /\ UNCHANGED notAuthVars

\* login(""), the loop: prompt; a prompt error is returned, an empty input asked
\* for again
EaPrompt(input, promptErr) ==
    /\ eapc = "prompt"
    /\ IF promptErr
       THEN /\ eret' = [token |-> <<>>, err |-> OtherErr]
            /\ eapc' = "returned"
            /\ UNCHANGED einput
       ELSE IF TrimSpace(input) = <<>>
       THEN UNCHANGED <<eret, eapc, einput>>
       ELSE /\ einput' = TrimSpace(input)
            /\ eapc' = "loginWhoami"
            /\ UNCHANGED eret
    /\ UNCHANGED <<store, store0, etoken, ewho, edeleted>>
    /\ UNCHANGED notAuthVars

\* login(""), the loop: fetchWhoAmI(input); on an error back to the prompt,
\* otherwise setToken(input), which may fail before (written = FALSE) or after
\* it has truncated the file
EaLoginWhoAmI(res, setOk, written) ==
    /\ eapc = "loginWhoami"
    /\ IF doJSONRequest(res) # NilErr
       THEN /\ eapc' = "prompt"
            /\ UNCHANGED <<store, eret>>
       ELSE IF setOk
       THEN /\ store' = File(einput)
            /\ eapc' = "getToken"
            /\ UNCHANGED eret
       ELSE /\ store' = IF written THEN CorruptFile ELSE store
            /\ eret' = [token |-> <<>>, err |-> OtherErr]
            /\ eapc' = "returned"
    /\ UNCHANGED <<store0, etoken, einput, ewho, edeleted>>
    /\ UNCHANGED notAuthVars

\* ensureAuth: return getToken()
EaGetToken(readErr) ==
    /\ eapc = "getToken"
    /\ eret' = getToken(store, readErr)
    /\ eapc' = "returned"
    /\ UNCHANGED <<store, store0, etoken, einput, ewho, edeleted>>
    /\ UNCHANGED notAuthVars

AuthNext ==
    \/ \E readErr \in BOOLEAN : EaStart(readErr)
    \/ \E res \in WhoResults, removed \in BOOLEAN : EaWhoAmI(res, removed)
    \/ \E input \in Strings, promptErr \in BOOLEAN : EaPrompt(input, promptErr)
    \/ \E res \in WhoResults, setOk, written \in BOOLEAN :
          EaLoginWhoAmI(res, setOk, written)
    \/ \E readErr \in BOOLEAN : EaGetToken(readErr)


(***************************************************************************)
(* Part 12: tunnelFlow from the list of existing tunnels to the tunnel it  *)
(* connects with.  ExpiresAt is a record: valid says whether the string    *)
(* parses as RFC 3339, at is the time it denotes.                          *)
(***************************************************************************)

\* number of existing tunnels of the project
MaxTunnels == 2

\* now := time.Now()
Now == 1

Times == 0..(Now + 1)

ExpiryStrings == [valid : BOOLEAN, at : Times]

ContainerIDs == {"c1", "c2"}

\* targetContainer.ID
TargetContainer == "c1"

FlowPorts == {80, 443}

\* time.Parse(time.RFC3339, t.ExpiresAt)
ParseExpiry(e) == [parseErr |-> ~e.valid, expiresAt |-> e.at]

\* expiresAt.Before(now) also for a tunnel expiring at this instant
BeforeOrAt(t, now) == t <= now

\* expiresAt.Before(now)
Before(t, now) == t < now

\* filepath.Join(keysDir(), "tunnel-"+id)
TunnelKey(id) == <<"tunnel", id>>

\* filepath.Join(keysDir(), tempID)
TempKey == <<"temp", 0>>

\* the tunnels of the project: the server gives every tunnel its own id
TunnelLists ==
    UNION {[1..n -> [TargetContainerID : ContainerIDs, TargetPort : FlowPorts,
                     ExpiresAt : ExpiryStrings]] : n \in 0..MaxTunnels}

WithID(l) ==
    [k \in 1..Len(l) |-> [TunnelID |-> k,
                          TargetContainerID |-> l[k].TargetContainerID,
                          TargetPort |-> l[k].TargetPort,
                          ExpiresAt |-> l[k].ExpiresAt]]

\* the tunnel createTunnel returns
NewTunnel ==
    [TunnelID |-> Len(flowTunnels) + 1, TargetContainerID |-> TargetContainer,
     TargetPort |-> targetPort, ExpiresAt |-> [valid |-> TRUE, at |-> Now + 1]]

TfInit ==
    /\ flowTunnels \in {WithID(l) : l \in TunnelLists}
    /\ keyFiles \in SUBSET {TunnelKey(id) : id \in 1..MaxTunnels}
    /\ targetPort \in FlowPorts
    /\ tfpc = "loop"
    /\ tunnelToUse = <<>>
    /\ keyPathToUse = <<>>
    /\ created = 0

TfInit0 == TfInit /\ flowTunnels = <<>> /\ keyFiles = {} /\ targetPort = 80

\* the body of the loop over tunnels: TRUE when the tunnel is taken
Usable(t) ==
    /\ t.TargetContainerID = TargetContainer
    /\ t.TargetPort = targetPort
    /\ ~(~ParseExpiry(t.ExpiresAt).parseErr
           /\ Before(ParseExpiry(t.ExpiresAt).expiresAt, Now))
    /\ TunnelKey(t.TunnelID) \in keyFiles

\* the loop over tunnels from index k: the index at which it breaks, 0 when it
\* runs to the end
RECURSIVE FirstUsable(_)
FirstUsable(k) ==
    IF k > Len(flowTunnels) THEN 0
    ELSE IF Usable(flowTunnels[k]) THEN k
    ELSE FirstUsable(k + 1)

TfLoop ==
    /\ tfpc = "loop"
    /\ LET k == FirstUsable(1) IN
         IF k > 0
         THEN /\ tunnelToUse' = <<flowTunnels[k]>>
              /\ keyPathToUse' = <<TunnelKey(flowTunnels[k].TunnelID)>>
              /\ tfpc' = "connect"
         ELSE /\ tfpc' = "generate"
              /\ UNCHANGED <<tunnelToUse, keyPathToUse>>
    /\ UNCHANGED <<flowTunnels, keyFiles, targetPort, created>>
    /\ UNCHANGED notTfVars

\* generateKeyPairAndSave(tempID)
TfGenerate(ok) ==
    /\ tfpc = "generate"
    /\ IF ok
       THEN keyFiles' = keyFiles \cup {TempKey} /\ tfpc' = "create"
       ELSE UNCHANGED keyFiles /\ tfpc' = "error"
    /\ UNCHANGED <<flowTunnels, targetPort, tunnelToUse, keyPathToUse, created>>
    /\ UNCHANGED notTfVars

\* createTunnel; removeKeyPair(tempID) when it fails
TfCreate(ok) ==
    /\ tfpc = "create"
    /\ IF ok
       THEN created' = created + 1 /\ tfpc' = "rename" /\ UNCHANGED keyFiles
       ELSE /\ keyFiles' = keyFiles \ {TempKey}
            /\ tfpc' = "error"
            /\ UNCHANGED created
    /\ UNCHANGED <<flowTunnels, targetPort, tunnelToUse, keyPathToUse>>
    /\ UNCHANGED notTfVars

\* renameKeyFiles(tempID, "tunnel-"+newTunnel.TunnelID)
TfRename(ok) ==
    /\ tfpc = "rename"
    /\ IF ok
       THEN /\ keyFiles' = (keyFiles \ {TempKey}) \cup {TunnelKey(NewTunnel.TunnelID)}
            /\ tunnelToUse' = <<NewTunnel>>
            /\ keyPathToUse' = <<TunnelKey(NewTunnel.TunnelID)>>
            /\ tfpc' = "connect"
       ELSE /\ tfpc' = "error"
            /\ UNCHANGED <<keyFiles, tunnelToUse, keyPathToUse>>
    /\ UNCHANGED <<flowTunnels, targetPort, created>>
    /\ UNCHANGED notTfVars

TfNext ==
    \/ TfLoop
    \/ \E ok \in BOOLEAN : TfGenerate(ok)
    \/ \E ok \in BOOLEAN : TfCreate(ok)
    \/ \E ok \in BOOLEAN : TfRename(ok)

Init ==
    TfInit0 /\ CmrInit /\ AuthInit0 /\ SglInit /\ SvcInit /\ TuiInit /\ RunInit /\ ResInit0 /\ FwdInit /\ LockInit /\ ReqInit /\ CmtInit

Next == SvcNext

Spec == Init /\ [][Next]_vars

SpecMulti == Init /\ [][TuiNext]_vars

SpecRun == Init /\ [][RunNext]_vars

\* resolveTunnelForwardHost is about to be called with any tunnel
InitResolve ==
    TfInit0 /\ CmrInit /\ AuthInit0 /\ SglInit /\ SvcInit /\ TuiInit /\ RunInit /\ ResInit /\ FwdInit /\ LockInit /\ ReqInit /\ CmtInit

SpecResolve == InitResolve /\ [][ResNext]_vars

\* one session of the tunnel service is registered and accepts connections
InitForward ==
    /\ TfInit0
    /\ CmrInit
    /\ AuthInit0
    /\ SglInit
    /\ SvcStarted /\ TuiInit /\ RunInit /\ ResInit0 /\ FwdInit /\ LockInit /\ ReqInit
    /\ CmtInit

SpecForward == InitForward /\ [][FwdNext]_vars

SpecLock == Init /\ [][LockNext]_vars

SpecRequest == Init /\ [][ReqNext]_vars

SpecStart == Init /\ [][StartNext]_vars

SpecApp == Init /\ [][AppNext]_vars

\* ensureAuth is called with the config file in any state
InitAuth ==
    /\ TfInit0
    /\ CmrInit
    /\ AuthInit
    /\ SglInit /\ SvcInit /\ TuiInit /\ RunInit /\ ResInit0 /\ FwdInit /\ LockInit
    /\ ReqInit /\ CmtInit

SpecAuth == InitAuth /\ [][AuthNext]_vars

SpecCm == Init /\ [][CmNext]_vars

InitFlow ==
    /\ TfInit
    /\ CmrInit /\ AuthInit0 /\ SglInit /\ SvcInit /\ TuiInit /\ RunInit /\ ResInit0
    /\ FwdInit /\ LockInit /\ ReqInit /\ CmtInit

SpecFlow == InitFlow /\ [][TfNext]_vars

\* one run of the program starts its tunnels in the TUI or in
\* connectMultipleTunnels
WaitNext ==
    \/ TuiNext /\ CmtInit /\ CmrInit
    \/ CmNext /\ TuiInit

\* the Go scheduler runs every goroutine that can take a step
SpecWaitLive ==
    /\ Init
    /\ [][WaitNext]_vars
    /\ \A i \in PlanIdx : WF_vars(CmtWaitReturn(i)) /\ WF_vars(CmtSend(i))

\* forwardConnection and the copy goroutines keep running; io.Copy returns once
\* one of its two connections is closed
SpecForwardLive ==
    /\ SpecForward
    /\ \A c \in Conns :
          /\ WF_vars(FwdReturn(c))
          /\ \A d \in Dirs :
                /\ WF_vars(CopySend(c, d))
                /\ WF_vars(CopyEnd(c, d) /\ (~localOpen[c] \/ ~remoteOpen[c]))

\* every launched ssh process exits, and runTunnelConnection keeps running
\* besides, the goroutines of the session keep running: Accept on a closed
\* listener returns, a stopTunnel past its unlock goes on to close, client.Dial
\* returns, and the io.Copy that reads remoteConn returns once the transport is
\* closed
SpecSessionLive ==
    /\ SpecForwardLive
    /\ \A r \in Starts :
          /\ WF_vars(AcceptExit(r) /\ ~listenerOpen[r])
          /\ WF_vars(AcceptTeardown(r))
    /\ \A s \in Stops : WF_vars(HandleStopTeardown(s))
    /\ \A c \in Conns :
          /\ WF_vars(\E ok \in BOOLEAN : FwdDial(c, ok))
          /\ WF_vars(CopyEnd(c, "toLocal") /\ ~clientOpen[fsess[c]])

SpecRunLive == SpecRun /\ WF_vars(RunNext)

(***************************************************************************)
(* Claims about the tunnel service, checked under Spec.                    *)
(***************************************************************************)

\* the session of request r was created (net.Listen succeeded) and no stopTunnel
\* has taken it out of the registry to tear it down
Live(r) == listenerOpen[r] /\ found[r] = 0

\* C1: of two POST /start with the same id, before any session of that id is
\* stopped, at most one is answered 200 and at most one session (listener and
\* transport) is started.
C1_OneStartWins ==
    \A r1, r2 \in Starts :
        (r1 # r2 /\ hpc[r1] # "idle" /\ hpc[r2] # "idle"
          /\ SessionID(r1) = SessionID(r2) /\ found[r1] = 0 /\ found[r2] = 0)
        => /\ ~(hresp[r1] = 200 /\ hresp[r2] = 200)
           /\ ~(listenerOpen[r1] /\ listenerOpen[r2])

\* C2: in every reachable state each identifier has at most one live session.
C2_AtMostOneLive ==
    \A id \in IDSpace :
        Cardinality({r \in Starts : SessionID(r) = id /\ Live(r)}) <= 1

\* C3: an accept loop that exits after its session's Quit was closed (an
\* intentional stop) removes no registry entry.
C3_SilentExit ==
    [][\A r \in Starts :
          (gpc[r] = "accepting" /\ gpc'[r] # "accepting" /\ quitClosed[r] > 0)
          => tunnels' = tunnels]_vars

\* C4: a POST /start answered 500 leaves nothing behind: its session is never in
\* the registry, and no listener or transport it opened stays open.
C4_FailedStartLeavesNothing ==
    \A r \in Starts :
        hresp[r] = 500
        => /\ tunnels[SessionID(r)] # r
           /\ found[r] = 0 => (~listenerOpen[r] /\ ~clientOpen[r])

C6_StopFreesID ==
    [][\A s \in Stops :
          (spc[s] = "removed" /\ spc'[s] = "done" /\ quietAtStop[s]
            /\ ~startedAfter'[s])
          => tunnels'[sid[s]] = None]_vars

\* C7: after POST /stop of id returned 200 and with no later start of id,
\* GET /status lists no entry for id and no session opened for id and never
\* handed to a stop is still open.
C7_StoppedIsGone ==
    \A s \in Stops :
        (sresp[s] = 200 /\ ~startedAfter[s])
        => /\ \A e \in handleStatus : e.id # sid[s]
           /\ \A r \in Starts :
                 (hpc[r] # "idle" /\ SessionID(r) = sid[s] /\ found[r] = 0)
                 => (~listenerOpen[r] /\ ~clientOpen[r])

\* C8: after POST /start returned 200 for id, and with no stop or accept failure
\* of id since, GET /status holds exactly one entry for id, active and with the
\* local port of that request.
C8_StartedIsListed ==
    \A r \in Starts :
        (hresp[r] = 200 /\ ~stoppedSince[r])
        => /\ Cardinality({e \in handleStatus : e.id = SessionID(r)}) = 1
           /\ \A e \in handleStatus :
                 e.id = SessionID(r)
                 => (e.local_port = hreq[r].port /\ e.status = "active")

(***************************************************************************)
(* Claims about the multi-tunnel orchestration, checked under SpecMulti.   *)
(***************************************************************************)

\* C9: when the TUI is told that a process of a started plan could not bind its
\* local port, no process of the plan is left running, the failure is on display
\* and the TUI is not on the running screen.
C9_AtomicStart ==
    [][(UpdateMultiEvent /\ Head(chans).end = "unbound")
       => /\ \A i \in PlanIdx : ~pst'[i]
          /\ view' # "viewRunningMulti"
          /\ errMsg' # ""]_vars

\* the user's stop signal: s, enter or esc on the running screen, ctrl+c, q
StopSignal == KeyStopMulti \/ KeyCtrlC \/ \E byList \in BOOLEAN : KeyQ(byList)

\* a process' exit reaches the TUI on the running screen
ExitNotified == view = "viewRunningMulti" /\ UpdateMultiEvent

C13_RunningOnlyAfterAllStarted ==
    [][(view # "viewRunningMulti" /\ view' = "viewRunningMulti")
       => /\ cpc = "msgOk"
          /\ multiRunningCmds' = [k \in PlanIdx |-> k]
          /\ \A k \in PlanIdx : multiRunningState'[k] = "running"
          /\ \A k \in 1..Len(chans') : chans'[k].end # "unbound"]_vars

(***************************************************************************)
(* Claims about runTunnelConnection, checked under SpecRun / SpecRunLive.  *)
(***************************************************************************)

\* C14: runTunnelConnection runs ssh at most maxRetries + 1 = 4 times, every launch
\* after the first comes after a further retryDelay (2 s) of sleep, it returns an
\* error exactly when 4 attempts were made and none of them ended with code 0 or
\* 130, and it returns once the launched processes have exited.
C14_AtMostFourLaunches ==
    /\ [](/\ launches <= maxRetries + 1
          /\ launches > 0 => slept = retryDelay * (launches - 1)
          /\ ret = "error"
             <=> /\ Len(outcomes) = maxRetries + 1
                 /\ \A k \in 1..Len(outcomes) : outcomes[k] \notin {0, 130}
          /\ ret # "none" <=> rpc = "returned")
    /\ <>(rpc = "returned")

\* C14 witness: four attempts, all abnormal, the error returned after 6 s of delay.
C14_Witness ==
    /\ ret = "error"
    /\ launches = 4
    /\ slept = 6

\* C15: an attempt that ends with code 0 or 130 is the last one and
\* runTunnelConnection returns nil with it; any other outcome of attempts 1 to 3
\* (another exit code, or no process started) leads to attempt + 1.
C15_CleanExitNotRetried ==
    [][Len(outcomes') = Len(outcomes) + 1
       => LET code == outcomes'[Len(outcomes')]
          IN  /\ rpc # "returned"
              /\ code \in {0, 130}
                 => (ret' = "nil" /\ rpc' = "returned" /\ attempt' = attempt)
              /\ (code \notin {0, 130} /\ attempt <= 3)
                 => (ret' = "none" /\ rpc' = "loop" /\ attempt' = attempt + 1)]_vars

\* C15 witness: the third attempt ended with the interrupt code after two abnormal
\* ones; nil was returned and no fourth attempt made.
C15_Witness ==
    /\ ret = "nil"
    /\ Len(outcomes) = 3
    /\ outcomes[3] = 130
    /\ launches = 3
    /\ rpc = "returned"

(***************************************************************************)
(* Claims about resolveTunnelForwardHost, checked under SpecResolve.       *)
(***************************************************************************)

\* the aliases of t that are not blank, by position
NonBlankAliases(t) == {k \in 1..Len(t.Aliases) : TrimSpace(t.Aliases[k]) # <<>>}

\* C16: the result is the trimmed docker name if that is not blank, else the
\* trimmed alias of least position among those not blank, else the trimmed IP
\* address if not blank, else "127.0.0.1"; it is never empty.
C16_ForwardHostOrder ==
    host # <<"unset">>
    => /\ host # <<>>
       /\ IF TrimSpace(tun.DockerName) # <<>>
          THEN host = TrimSpace(tun.DockerName)
          ELSE IF NonBlankAliases(tun) # {}
          THEN \E k \in NonBlankAliases(tun) :
                  /\ \A l \in NonBlankAliases(tun) : k <= l
                  /\ host = TrimSpace(tun.Aliases[k])
          ELSE IF TrimSpace(tun.IPAddress) # <<>>
          THEN host = TrimSpace(tun.IPAddress)
          ELSE host = Localhost

\* C16 witness: a blank docker name, a blank first alias, a second alias with
\* white space around it, and an IP address: the trimmed second alias is returned.
C16_Witness ==
    /\ TrimSpace(tun.DockerName) = <<>>
    /\ tun.DockerName # <<>>
    /\ Len(tun.Aliases) = 2
    /\ tun.Aliases[1] = <<" ">>
    /\ tun.Aliases[2] = <<" ", "a">>
    /\ tun.IPAddress = <<"a", "a">>
    /\ host = <<"a">>

\* a forwarder's client.Dial fails in this step
DialFails(c) == fpc[c] = "dial" /\ fpc'[c] = "returned"

\* C17: when a forwarder's dial to the remote fails, the forwarder closes its
\* local connection and returns, and the owning session stays as it was: the
\* registry, the listener, the transport and the accept loop are unchanged by
\* that step, and the accept loop can accept the next connection.
C17_DialFailureKeepsSession ==
    /\ [][\A c \in Conns : DialFails(c) =>
            /\ ~localOpen'[c]
            /\ tunnels' = tunnels
            /\ listenerOpen' = listenerOpen
            /\ clientOpen' = clientOpen
            /\ gpc' = gpc
            /\ quitClosed' = quitClosed]_vars
    /\ [](\A r \in Starts, c \in Conns :
            (/\ gpc[r] = "accepting"
             /\ listenerOpen[r]
             /\ fpc[c] = "none"
             /\ \A q \in Conns : q < c => fpc[q] # "none")
            => ENABLED AcceptConn(r, c))

\* a connection was accepted and forwarded after an earlier connection's dial
\* failed, the session still registered and listening
C17_Witness ==
    \E c \in Conns :
        /\ failsBefore[c] > 0
        /\ fpc[c] = "waiting"
        /\ tunnels["a"] = fsess[c]
        /\ listenerOpen[fsess[c]]
        /\ clientOpen[fsess[c]]
        /\ \E q \in Conns : fpc[q] = "returned" /\ cps[q]["toLocal"] = "none" /\ ~localOpen[q]

\* forwardConnection of c returns from <-done in this step
Returns(c) == fpc[c] = "waiting" /\ fpc'[c] = "returned"

\* C18: once either copy direction has ended, forwardConnection closes both the
\* local and the remote connection and returns, and both copy goroutines
\* terminate: a copy goroutine that has to send on done always can.
C18_BothClosedBothEnd ==
    /\ [][\A c \in Conns : Returns(c) => ~localOpen'[c] /\ ~remoteOpen'[c]]_vars
    /\ [](\A c \in Conns, d \in Dirs : cps[c][d] = "sending" => ENABLED CopySend(c, d))
    /\ \A c \in Conns :
          (\E d \in Dirs : cps[c][d] \in {"sending", "done"})
             ~> (/\ fpc[c] = "returned"
                 /\ ~localOpen[c]
                 /\ ~remoteOpen[c]
                 /\ \A d \in Dirs : cps[c][d] = "done")

\* a forwarder returned after copying, both connections closed, both copy
\* goroutines finished
C18_Witness ==
    \E c \in Conns :
        /\ fpc[c] = "returned"
        /\ \A d \in Dirs : cps[c][d] = "done"
        /\ ~localOpen[c]
        /\ ~remoteOpen[c]
        /\ doneCh[c] = 1

\* the accept loop of session r ended on an Accept error, not on a stop: its
\* deferred stopTunnel found the session itself registered, Quit not closed
DiedUnstopped(r) == gpc[r] = "teardown" /\ gheld[r] = r /\ quitClosed[r] = 0

\* C19: a session whose accept loop died for a reason other than an intentional
\* stop is reported by GET /status as failed.
C19_DeadSessionReportedFailed ==
    \A r \in Starts :
        DiedUnstopped(r) =>
            \E e \in handleStatus : e.id = SessionID(r) /\ e.status = "failed"

\* C20: no goroutine is in blocking I/O while it holds the registry lock: a
\* handleStatus call that writes its response does not hold m.mu, so that no
\* check, insert or removal of a start or stop waits for that write.
C20_LockOnlyForMap ==
    \A q \in StatusReqs :
        tpc[q] = "encode" =>
            /\ mu # q
            /\ \A s \in Stops, id \in IDSpace :
                  ENABLED HandleStopReq(s, id) => ENABLED LockedStopReq(s, id)
            /\ \A r \in Starts :
                  ENABLED StartTunnelRegister(r) => ENABLED LockedRegister(r)

\* C21: once a session has been stopped (stopTunnel closed its Quit channel, its
\* listener and its transport, whoever called it), the session's accept goroutine
\* terminates, whether or not a connection was ever accepted: it does not stay in
\* Accept.
C21_StoppedLoopTerminates ==
    \A r \in Starts : (quitClosed[r] > 0) ~> (gpc[r] = "exited")

\* C21 witness: POST /stop tore the session down while its goroutine was in
\* Accept with no connection accepted, and the goroutine has terminated
C21_Witness ==
    \E r \in Starts, s \in Stops :
        /\ sresp[s] = 200
        /\ sid[s] = SessionID(r)
        /\ quitClosed[r] = 1
        /\ found[r] = 1
        /\ gpc[r] = "exited"
        /\ ~listenerOpen[r]

\* a POST /start whose body decodes is about to be handled
StartPosted == hstep = "received" /\ inreq.endpoint = "/start" /\ inreq.method = "POST" /\ inreq.decodes

\* nothing but the response changes: the registry is as it was and no startTunnel
\* goroutine was spawned, so that nothing is dialled or bound for the request
OnlyAnswered ==
    /\ mtunnels' = mtunnels
    /\ tstep' = tstep
    /\ cur' = cur
    /\ tClient' = tClient
    /\ tListener' = tListener
    /\ tAccept' = tAccept
    /\ hstep' = "idle"

\* C22: a POST /start whose body lacks ssh_host, ssh_port, private_key,
\* local_port, remote_host or remote_port is answered 400; the registry is
\* unchanged and nothing is dialled or bound for it.
C22_MissingFieldIs400 ==
    [][(/\ StartPosted
        /\ \/ inreq.body.ssh_host = ""
           \/ inreq.body.ssh_port = 0
           \/ inreq.body.private_key = ""
           \/ inreq.body.local_port = 0
           \/ inreq.body.remote_host = ""
           \/ inreq.body.remote_port = 0)
       => resp'.code = 400 /\ OnlyAnswered]_vars

\* C22 witness: with a session registered, a POST /start that lacked a field was
\* answered 400
C22_Witness ==
    /\ resp.code = 400
    /\ resp.body = "Missing required fields"
    /\ \E id \in RegIDs : mtunnels[id] # NoTunnel

\* C23: a POST /start whose local_port or remote_port is zero or negative is
\* answered 400 before anything is touched: nothing is dialled for it, and no
\* session with a local or remote port that is not positive is started or
\* registered.
C23_PortsPositive ==
    /\ [][(StartPosted /\ (inreq.body.local_port <= 0 \/ inreq.body.remote_port <= 0))
          => resp'.code = 400 /\ OnlyAnswered]_vars
    /\ [](tstep \in {"parse", "dial", "listen", "register"} => cur.lport > 0 /\ cur.rport > 0)
    /\ [](\A id \in RegIDs :
            mtunnels[id] # NoTunnel => mtunnels[id].lport > 0 /\ mtunnels[id].rport > 0)

\* nothing but the response changes in this step
HandlerNotRun ==
    /\ mtunnels' = mtunnels
    /\ tstep' = tstep
    /\ cur' = cur
    /\ tClient' = tClient
    /\ tListener' = tListener
    /\ tAccept' = tAccept
    /\ svcVars' = svcVars

Failed == tstep \in {"failedKey", "failedDial", "failedBind"}

\* C25: a startTunnel that fails (private key, SSH dial or bind) returns an error
\* with the registry as it was at its start and with nothing left open: the
\* transport opened before a bind failure is closed, no listener is open and no
\* accept loop was started.
C25_FailedStartTunnelIsClean ==
    /\ [](Failed => ~tClient /\ ~tListener /\ ~tAccept)
    /\ [][(tstep \in {"parse", "dial", "listen"}) => mtunnels' = mtunnels]_vars
    /\ [][(tstep = "parse" /\ tstep' \notin {"parse", "dial"}) => tstep' = "failedKey"]_vars
    /\ [][(tstep = "dial" /\ tstep' \notin {"dial", "listen"}) => tstep' = "failedDial"]_vars
    /\ [][(tstep = "listen" /\ tstep' \notin {"listen", "register"})
             => tClient /\ tstep' = "failedBind"]_vars

\* C25 witness: net.Listen failed on a port a registered session holds, after the
\* dial had succeeded; the transport is closed again
C25_Witness ==
    /\ tstep = "failedBind"
    /\ ~tClient
    /\ hstep = "sleeping"
    /\ \E id \in RegIDs : mtunnels[id] # NoTunnel /\ mtunnels[id].lport = cur.lport

\* C26: when the accept loop of a registered session fails and no stop has
\* closed the session's Quit, the goroutine itself removes the session's registry
\* entry and then closes the session's listener and transport; no stop request
\* is needed.
C26_FailedLoopRemovesItself ==
    /\ [][\A r \in Starts :
            (/\ gpc[r] = "accepting"
             /\ gpc'[r] # "accepting"
             /\ tunnels[SessionID(r)] = r
             /\ quitClosed[r] = 0)
            => tunnels'[SessionID(r)] = None /\ gheld'[r] = r]_vars
    /\ \A r \in Starts :
          DiedUnstopped(r)
             ~> (/\ gpc[r] = "exited"
                 /\ tunnels[SessionID(r)] # r
                 /\ ~listenerOpen[r]
                 /\ ~clientOpen[r])

\* C26 witness: no POST /stop was ever received, and the session whose accept
\* loop failed is gone from the registry with its listener and transport closed
C26_Witness ==
    \E r \in Starts :
        /\ \A s \in Stops : spc[s] = "idle"
        /\ gpc[r] = "exited"
        /\ found[r] = 1
        /\ tunnels[SessionID(r)] = None
        /\ ~listenerOpen[r]
        /\ ~clientOpen[r]

\* C27: after a session has been stopped, every forwarder its accept loop
\* spawned terminates with its local connection closed: one that has not dialled
\* yet (its connection was accepted just before the stop) as well as one in the
\* middle of a copy.
C27_ForwardersEndWithSession ==
    \A r \in Starts :
        (quitClosed[r] > 0)
           ~> (\A c \in Conns : fsess[c] = r => fpc[c] = "returned" /\ ~localOpen[c])

\* C27 witness: the session was stopped while one forwarder was copying in both
\* directions and another had not dialled yet
C27_Witness ==
    \E r \in Starts, c, d \in Conns :
        /\ quitClosed[r] > 0
        /\ ~clientOpen[r]
        /\ fsess[c] = r
        /\ fsess[d] = r
        /\ fpc[c] = "waiting"
        /\ \A x \in Dirs : cps[c][x] = "copying"
        /\ fpc[d] = "dial"

FailedStartHandled ==
    \/ \E k \in SingleIdx : sst[k] = "msgErr" /\ sst'[k] = "done"
    \/ cpc = "msgErr" /\ cpc' = "done"

\* C29: handling a failed single-tunnel or multi-tunnel start, the TUI sets the
\* error message, shows the container menu, does not quit, and holds no
\* running session: singleRunningCmd is nil and multiRunningCmds is empty.
C29_FailedStartLeavesNothing ==
    [][FailedStartHandled
       => /\ errMsg' # ""
          /\ view' = "viewContainerMenu"
          /\ ~quit'
          /\ singleRunningCmd' = None
          /\ multiRunningCmds' = <<>>]_vars

\* C29, the part that holds: the message, the view, no quit, and the step
\* records nothing
C29_FailedStartHandled ==
    [][FailedStartHandled
       => /\ errMsg' # ""
          /\ view' = "viewContainerMenu"
          /\ ~quit'
          /\ singleRunningCmd' = singleRunningCmd
          /\ multiRunningCmds' = multiRunningCmds]_vars

\* the id "tunnel-<local_port>", written out
TunnelDashPort(p) ==
    CASE p = -1 -> "tunnel--1" [] p = 0 -> "tunnel-0" [] p = 1 -> "tunnel-1"
      [] p = 2 -> "tunnel-2" [] p = 3 -> "tunnel-3" [] OTHER -> "tunnel-4"

\* the id and the user a POST /start is to be handled under
HandledID(b) == IF b.id = "" THEN TunnelDashPort(b.local_port) ELSE b.id
HandledUser(b) == IF b.ssh_user = "" THEN "root" ELSE b.ssh_user

\* C30: a POST /start without id is handled under "tunnel-<local_port>", one
\* without ssh_user under the user "root"; the session is registered under that
\* id and the id of the 200 response is the key it is registered under; an
\* id-less start of a local port whose "tunnel-<local_port>" is registered is
\* answered 409 and changes nothing.
C30_DefaultIDIsTheKey ==
    /\ [][(StartPosted /\ hstep' = "sleeping")
          => /\ cur'.id = HandledID(inreq.body)
             /\ cur'.user = HandledUser(inreq.body)]_vars
    /\ [][(tstep = "register" /\ tstep' = "done")
          => /\ cur.id # ""
             /\ mtunnels'[cur.id] = [lport |-> cur.lport, rport |-> cur.rport]
             /\ \A k \in RegIDs \ {cur.id} : mtunnels'[k] = mtunnels[k]]_vars
    /\ [][(hstep = "sleeping" /\ resp'.code = 200)
          => /\ resp'.body = cur.id
             /\ mtunnels[resp'.body] = [lport |-> cur.lport, rport |-> cur.rport]]_vars
    /\ [][(/\ StartPosted
           /\ ~Missing(inreq.body)
           /\ inreq.body.id = ""
           /\ mtunnels[TunnelDashPort(inreq.body.local_port)] # NoTunnel)
          => /\ resp'.code = 409
             /\ mtunnels' = mtunnels
             /\ tstep' = tstep
             /\ hstep' = "idle"]_vars

\* C30 witness: an id-less start of local port 1 was answered 409 while
\* "tunnel-1" is registered for local port 1
C30_Witness ==
    /\ resp.code = 409
    /\ resp.body = "tunnel-1"
    /\ mtunnels["tunnel-1"].lport = 1
    /\ mtunnels["a"] = NoTunnel

\* ensureAuth's own whoami check has failed with status 401 or 403
WhoExpired == ewho.kind = "api" /\ ewho.status \in {401, 403}

\* C31: ensureAuth deletes the stored token only when its whoami check failed
\* with status 401 or 403, and then runs the login loop; on any other failure
\* of the check the stored token is as it was and the error is returned; on
\* success the stored token is returned and is as it was.
C31_DeleteOnlyWhenExpired ==
    /\ [](edeleted => WhoExpired)
    /\ [][(store'.kind = "absent" /\ store.kind # "absent")
          => (eapc = "whoami" /\ ewho'.kind = "api" /\ ewho'.status \in {401, 403})]_vars
    /\ [][(eapc = "whoami" /\ ewho'.kind = "api" /\ ewho'.status \in {401, 403})
          => (edeleted' /\ eapc' = "prompt")]_vars
    /\ [](eapc = "returned" /\ ewho.kind \in {"api", "other"} /\ ~WhoExpired
          => /\ store = store0
             /\ eret = [token |-> <<>>, err |-> ewho])
    /\ [](eapc = "returned" /\ ewho.kind = "nil"
          => /\ store = store0
             /\ eret = [token |-> store0.token, err |-> NilErr])

\* C31 witness: the check failed with 500 and the error was returned
C31_Witness ==
    /\ eapc = "returned"
    /\ ewho = [kind |-> "api", status |-> 500]
    /\ store0.kind = "token"
    /\ eret.err = ewho

\* C32: in every state of the projects TUI a non-empty multiRunningCmds goes
\* with the view viewRunningMulti and a non-nil singleRunningCmd with the view
\* viewRunningSingle; no asynchronous result moves the view away from a
\* running view while sessions run.
C32_RunningMeansRunningView ==
    /\ multiRunningCmds # <<>> => view = "viewRunningMulti"
    /\ singleRunningCmd # None => view = "viewRunningSingle"

\* C33: in every state of the projects TUI every ssh process the TUI has
\* spawned and that has not exited is referenced by singleRunningCmd or
\* multiRunningCmds, also while a start command is under way; the program never
\* quits while a spawned ssh process runs.
C33_SpawnedIsReferenced ==
    /\ \A i \in PlanIdx : pst[i] => i \in Range(multiRunningCmds)
    /\ \A k \in SingleIdx : sproc[k] = "running" => singleRunningCmd = k
    /\ quit => /\ \A i \in PlanIdx : ~pst[i]
               /\ \A k \in SingleIdx : sproc[k] # "running"

\* C33, the quit alone: the program has quit and a spawned ssh process runs
C33_NoQuitOverRunning ==
    quit => /\ \A i \in PlanIdx : ~pst[i]
            /\ \A k \in SingleIdx : sproc[k] # "running"

\* Update handles the singleSSHDoneMsg of start k
SingleDoneHandled(k) == swait[k] \in {"msgNil", "msgErr"} /\ swait'[k] = "done"

\* C35: the singleSSHDoneMsg of a single session that the user has stopped
\* neither clears singleRunningCmd of a single session started after it nor
\* leaves that session's running view.
C35_StaleDoneKeepsNewSession ==
    [][\A k \in SingleIdx :
         (SingleDoneHandled(k) /\ sstopKey[k] /\ singleRunningCmd \notin {None, k})
         => (singleRunningCmd' = singleRunningCmd /\ view' = view)]_vars

\* C36: after the user has stopped a running single session with s, enter or
\* esc, the end of that session sets no error message and is not reported as
\* "Tunnel session ended with error".
C36_UserStopIsNoError ==
    [][\A k \in SingleIdx :
         (SingleDoneHandled(k) /\ sstopKey[k])
         => (errMsg' = errMsg /\ status' # "Tunnel session ended with error")]_vars

\* Update handles a multiEventMsg of a batch that stopAllMulti has stopped
StaleEventHandled == ~multiEvents /\ readers > 0 /\ readers' = readers - 1

\* C34: a multiEventMsg of a batch that has been stopped changes neither the
\* view nor the recorded state of the sessions.
C34_StaleEventHasNoEffect ==
    [][StaleEventHandled
       => (view' = view /\ multiRunningState' = multiRunningState)]_vars

\* C38: when connectMultipleTunnels returns after its running phase, the
\* goroutine that reads the stop line from stdin has terminated.
C38_StopReaderGoneAtReturn ==
    (cmpc = "returned" /\ cmret = "nil") => cmPrompt = "done"

\* C37: every goroutine that waits on a tunnel process terminates after its
\* process has exited or was stopped, also when nothing reads the channel any
\* more: in the TUI the events channel always has room for the one event of
\* every process still running, and in connectMultipleTunnels a wait goroutine
\* whose process has ended gets past its send on exitCh.
C37_WaitGoroutinesTerminate ==
    /\ [](Len(chans) + Cardinality({i \in PlanIdx : pst[i]}) <= EventsCap)
    /\ \A i \in PlanIdx :
         (cmWait[i] # "none" /\ cmProc[i] \in {"zombie", "reaped"})
             ~> (cmWait[i] = "done")

\* connectMultipleTunnels has returned after the stop line, nothing reads exitCh
\* any more, and every wait goroutine has sent its message and ended
C37_Witness ==
    /\ cmpc = "returned"
    /\ cmRunning = PlanLen
    /\ exitCh = ExitCap
    /\ \A i \in PlanIdx : cmWait[i] = "done"

\* the conditions of C39 on an existing tunnel, stated on its fields
Suitable(t) ==
    /\ t.TargetContainerID = TargetContainer
    /\ t.TargetPort = targetPort
    /\ t.ExpiresAt.valid => t.ExpiresAt.at >= Now
    /\ TunnelKey(t.TunnelID) \in keyFiles

SuitableIdx == {k \in 1..Len(flowTunnels) : Suitable(flowTunnels[k])}

\* C39: tunnelFlow connects with an existing tunnel only if that tunnel targets
\* the resolved container and the requested port, its expiry, when it parses,
\* is not in the past, and its key file exists; it is the first such tunnel of
\* the list; when there is none, tunnelFlow creates exactly one tunnel and
\* connects with it; a tunnel is never created when one is suitable, and never
\* more than one.
C39_ReuseFirstSuitableElseCreateOne ==
    /\ created <= 1
    /\ SuitableIdx # {} => (created = 0 /\ tfpc \in {"loop", "connect"})
    /\ tfpc = "connect" =>
         IF SuitableIdx # {}
         THEN /\ \E k \in SuitableIdx :
                   /\ \A j \in SuitableIdx : k <= j
                   /\ tunnelToUse = <<flowTunnels[k]>>
                   /\ keyPathToUse = <<TunnelKey(flowTunnels[k].TunnelID)>>
         ELSE /\ created = 1
              /\ tunnelToUse = <<NewTunnel>>
              /\ \A k \in 1..Len(flowTunnels) : flowTunnels[k] # NewTunnel
              /\ keyPathToUse = <<TunnelKey(NewTunnel.TunnelID)>>
              /\ keyPathToUse[1] \in keyFiles

\* the first tunnel matches but has expired, the second expires at this instant
\* and is the one reused
C39_Witness ==
    /\ tfpc = "connect"
    /\ Len(flowTunnels) = 2
    /\ flowTunnels[1].TargetContainerID = TargetContainer
    /\ flowTunnels[1].TargetPort = targetPort
    /\ TunnelKey(1) \in keyFiles
    /\ flowTunnels[1].ExpiresAt = [valid |-> TRUE, at |-> Now - 1]
    /\ flowTunnels[2].ExpiresAt = [valid |-> TRUE, at |-> Now]
    /\ tunnelToUse = <<flowTunnels[2]>>
    /\ created = 0

====
